---- MODULE Spec2Model ----
(***************************************************************************)
(* Model of the log-tailing engine of logwatch-menubar                     *)
(* (src/logwatch_core.py): MultiLogWatcher's per-file cursor, count and    *)
(* matched-line buffer, driven by check / reindex operations over files    *)
(* that an environment appends to, truncates and deletes.                  *)
(*                                                                         *)
(* Text is modelled at character level: a string is a sequence of          *)
(* one-character strings, a file is the sequence of its bytes (ASCII, so   *)
(* one byte per character and the byte offset of seek() equals the         *)
(* character count of read(n)).                                            *)
(***************************************************************************)
EXTENDS Integers, Sequences, FiniteSets, TLC

\* ------------------------------------------------------------------------
\* Text helpers (Python str / re semantics on ASCII text)
\* ------------------------------------------------------------------------

Uppercase == <<"A", "B", "C", "D", "E", "F", "G", "H", "I", "J", "K", "L", "M",
               "N", "O", "P", "Q", "R", "S", "T", "U", "V", "W", "X", "Y", "Z">>

Lowercase == <<"a", "b", "c", "d", "e", "f", "g", "h", "i", "j", "k", "l", "m",
               "n", "o", "p", "q", "r", "s", "t", "u", "v", "w", "x", "y", "z">>

DigitChars == <<"0", "1", "2", "3", "4", "5", "6", "7", "8", "9">>

DigitSet == {DigitChars[i] : i \in DOMAIN DigitChars}

\* re.IGNORECASE folds ASCII letters
LowerTable ==
    [c \in {Uppercase[i] : i \in DOMAIN Uppercase} |->
        Lowercase[CHOOSE i \in DOMAIN Uppercase : Uppercase[i] = c]]

Lower(c) == IF c \in DOMAIN LowerTable THEN LowerTable[c] ELSE c

LowerStr(s) == [i \in 1..Len(s) |-> Lower(s[i])]

\* characters str.strip() and the regex class \s remove / match
Whitespace == {" ", "\t", "\n", "\r", "\f"}

\* line boundaries of str.splitlines() (ASCII subset)
SplitlinesBreaks == {"\n", "\r", "\f"}

\* line boundary of text-mode file iteration and of str.count('\n')
FileLineBreaks == {"\n"}

IsDigit(c) == c \in DigitSet

DigitVal(c) == (CHOOSE i \in DOMAIN DigitChars : DigitChars[i] = c) - 1

\* the position of the first character of s (from index `from`) that is in
\* `breaks`, 0 if there is none
FirstBreak(s, breaks) ==
    IF \E i \in 1..Len(s) : s[i] \in breaks
    THEN CHOOSE i \in 1..Len(s) :
            /\ s[i] \in breaks
            /\ \A j \in 1..(i - 1) : s[j] \notin breaks
    ELSE 0

\* `for line in f`: the lines of a text file, each with its terminator,
\* the last one possibly without
RECURSIVE FileLines(_)
FileLines(s) ==
    IF s = <<>> THEN <<>>
    ELSE LET n == FirstBreak(s, FileLineBreaks)
         IN  IF n = 0 THEN <<s>>
             ELSE <<SubSeq(s, 1, n)>> \o FileLines(SubSeq(s, n + 1, Len(s)))

\* str.splitlines(): the lines without their terminators
RECURSIVE Splitlines(_)
Splitlines(s) ==
    IF s = <<>> THEN <<>>
    ELSE LET n == FirstBreak(s, SplitlinesBreaks)
         IN  IF n = 0 THEN <<s>>
             ELSE <<SubSeq(s, 1, n - 1)>> \o Splitlines(SubSeq(s, n + 1, Len(s)))

\* str.count('\n')
CountNewlines(s) == Cardinality({i \in 1..Len(s) : s[i] \in FileLineBreaks})

\* str.strip()
Strip(s) ==
    IF \A i \in 1..Len(s) : s[i] \in Whitespace THEN <<>>
    ELSE LET a == CHOOSE i \in 1..Len(s) :
                    s[i] \notin Whitespace /\ \A j \in 1..(i - 1) : s[j] \in Whitespace
             b == CHOOSE i \in 1..Len(s) :
                    s[i] \notin Whitespace /\ \A j \in (i + 1)..Len(s) : s[j] \in Whitespace
         IN  SubSeq(s, a, b)

\* re.compile(re.escape(p), re.IGNORECASE).search(line): p occurs in line,
\* letters compared without case
ContainsIgnoreCase(line, p) ==
    LET l == LowerStr(line)
        q == LowerStr(p)
    IN  \E i \in 1..(Len(l) - Len(q) + 1) : \A j \in 1..Len(q) : l[i + j - 1] = q[j]

\* ------------------------------------------------------------------------
\* Timestamp extraction (TIMESTAMP_PATTERNS, parse_log_timestamp)
\* A datetime is the tuple <<year, month, day, hour, minute, second>>;
\* None is the empty tuple.
\* ------------------------------------------------------------------------

None == <<>>

DigitsAt(s, i, n) == i >= 1 /\ i + n - 1 <= Len(s) /\ \A j \in i..(i + n - 1) : IsDigit(s[j])

CharAt(s, i, set) == i >= 1 /\ i <= Len(s) /\ s[i] \in set

\* int(m.group(k)) of an n-digit group starting at i
RECURSIVE IntAt(_, _, _)
IntAt(s, i, n) == IF n = 0 THEN 0 ELSE IntAt(s, i, n - 1) * 10 + DigitVal(s[i + n - 1])

\* \d{2}:\d{2}:\d{2} at i
TimeAt(s, i) ==
    /\ DigitsAt(s, i, 2) /\ CharAt(s, i + 2, {":"})
    /\ DigitsAt(s, i + 3, 2) /\ CharAt(s, i + 5, {":"})
    /\ DigitsAt(s, i + 6, 2)

\* \d{4}[-/]\d{2}[-/]\d{2} at i
IsoDateAt(s, i) ==
    /\ DigitsAt(s, i, 4) /\ CharAt(s, i + 4, {"-", "/"})
    /\ DigitsAt(s, i + 5, 2) /\ CharAt(s, i + 7, {"-", "/"})
    /\ DigitsAt(s, i + 8, 2)

\* (\d{4})[-/](\d{2})[-/](\d{2})[T\s](\d{2}):(\d{2}):(\d{2}) at i
IsoDateTimeAt(s, i) ==
    IsoDateAt(s, i) /\ CharAt(s, i + 10, {"T"} \cup Whitespace) /\ TimeAt(s, i + 11)

\* the length of the whitespace run that starts at i
RECURSIVE SpaceRun(_, _)
SpaceRun(s, i) == IF CharAt(s, i, Whitespace) THEN 1 + SpaceRun(s, i + 1) ELSE 0

\* (\d{2})[-/](\d{2})[-/](\d{4})\s+(\d{2}):(\d{2}):(\d{2}) at i
UsDateTimeAt(s, i) ==
    /\ DigitsAt(s, i, 2) /\ CharAt(s, i + 2, {"-", "/"})
    /\ DigitsAt(s, i + 3, 2) /\ CharAt(s, i + 5, {"-", "/"})
    /\ DigitsAt(s, i + 6, 4)
    /\ SpaceRun(s, i + 10) >= 1
    /\ TimeAt(s, i + 10 + SpaceRun(s, i + 10))

\* \[(\d{4})[-/](\d{2})[-/](\d{2})[T\s](\d{2}):(\d{2}):(\d{2}) at i
BracketedAt(s, i) == CharAt(s, i, {"["}) /\ IsoDateTimeAt(s, i + 1)

\* whether pattern k of TIMESTAMP_PATTERNS matches at position i
PatternAt(k, s, i) ==
    CASE k = 1 -> IsoDateTimeAt(s, i)
      [] k = 2 -> IsoDateAt(s, i)
      [] k = 3 -> UsDateTimeAt(s, i)
      [] k = 4 -> BracketedAt(s, i)

\* pattern.search(line): the leftmost match position, 0 if none
SearchPattern(k, s) ==
    IF \E i \in 1..Len(s) : PatternAt(k, s, i)
    THEN CHOOSE i \in 1..Len(s) :
            PatternAt(k, s, i) /\ \A j \in 1..(i - 1) : ~PatternAt(k, s, j)
    ELSE 0

\* the groups the converter of pattern k reads from a match at i, as
\* <<year, month, day, hour, minute, second>>
ConverterArgs(k, s, i) ==
    CASE k = 1 -> <<IntAt(s, i, 4), IntAt(s, i + 5, 2), IntAt(s, i + 8, 2),
                    IntAt(s, i + 11, 2), IntAt(s, i + 14, 2), IntAt(s, i + 17, 2)>>
      [] k = 2 -> <<IntAt(s, i, 4), IntAt(s, i + 5, 2), IntAt(s, i + 8, 2), 0, 0, 0>>
      [] k = 3 -> LET t == i + 10 + SpaceRun(s, i + 10)
                  IN  <<IntAt(s, i + 6, 4), IntAt(s, i, 2), IntAt(s, i + 3, 2),
                        IntAt(s, t, 2), IntAt(s, t + 3, 2), IntAt(s, t + 6, 2)>>
      [] k = 4 -> <<IntAt(s, i + 1, 4), IntAt(s, i + 6, 2), IntAt(s, i + 9, 2),
                    IntAt(s, i + 12, 2), IntAt(s, i + 15, 2), IntAt(s, i + 18, 2)>>

IsLeapYear(y) == (y % 4 = 0 /\ y % 100 # 0) \/ y % 400 = 0

DaysInMonth(y, m) ==
    CASE m \in {1, 3, 5, 7, 8, 10, 12} -> 31
      [] m \in {4, 6, 9, 11} -> 30
      [] m = 2 -> IF IsLeapYear(y) THEN 29 ELSE 28

\* datetime(...) raises ValueError unless the fields are in range
ValidDatetime(d) ==
    /\ d[1] \in 1..9999
    /\ d[2] \in 1..12
    /\ d[3] >= 1 /\ d[3] <= DaysInMonth(d[1], d[2])
    /\ d[4] \in 0..23 /\ d[5] \in 0..59 /\ d[6] \in 0..59

NumTimestampPatterns == 4

\* a wrong loop: the first pattern that matches decides, also when its
\* conversion fails
RECURSIVE ParseFirstMatch(_, _)
ParseFirstMatch(k, line) ==
    IF k > 4 THEN None
    ELSE LET i == SearchPattern(k, line)
         IN  IF i = 0 THEN ParseFirstMatch(k + 1, line)
             ELSE IF ValidDatetime(ConverterArgs(k, line, i))
                  THEN ConverterArgs(k, line, i) ELSE None

\* the loop of parse_log_timestamp from pattern k on: the first pattern that
\* matches and converts wins; a ValueError moves on to the next pattern
RECURSIVE ParseFrom(_, _)
ParseFrom(k, line) ==
    IF k > NumTimestampPatterns THEN None
    ELSE LET i == SearchPattern(k, line)
         IN  IF i # 0 /\ ValidDatetime(ConverterArgs(k, line, i))
             THEN ConverterArgs(k, line, i)
             ELSE ParseFrom(k + 1, line)

parse_log_timestamp(line) == ParseFrom(1, line)

\* a < b on datetimes (lexicographic on the fields)
RECURSIVE DtLessFrom(_, _, _)
DtLessFrom(a, b, i) ==
    IF i > 6 THEN FALSE
    ELSE IF a[i] # b[i] THEN a[i] < b[i]
    ELSE DtLessFrom(a, b, i + 1)

DtLess(a, b) == DtLessFrom(a, b, 1)

\* MultiLogWatcher._is_in_datetime_range with the filter (start_dt, end_dt)
\* a wrong filter: the bounds themselves are excluded
IsInDatetimeRangeExclusive(line_timestamp, start_dt, end_dt) ==
    \/ line_timestamp = None
    \/ /\ (start_dt = None \/ DtLess(start_dt, line_timestamp))
       /\ (end_dt = None \/ DtLess(line_timestamp, end_dt))

IsInDatetimeRange(line_timestamp, start_dt, end_dt) ==
    IF line_timestamp = None THEN TRUE
    ELSE IF start_dt # None /\ DtLess(line_timestamp, start_dt) THEN FALSE
    ELSE IF end_dt # None /\ DtLess(end_dt, line_timestamp) THEN FALSE
    ELSE TRUE

\* ------------------------------------------------------------------------
\* Pattern Set (set_error_patterns, _count_matches)
\* ------------------------------------------------------------------------

DEFAULT_ERROR_PATTERNS ==
    << <<"e", "x", "c", "e", "p", "t", "i", "o", "n">>,
       <<"e", "r", "r", "o", "r">>,
       <<"t", "r", "a", "c", "e", "b", "a", "c", "k">>,
       <<"f", "a", "i", "l", "e", "d">>,
       <<"c", "r", "i", "t", "i", "c", "a", "l">> >>

\* A pattern string that starts with "^" is compiled as a regular expression.
\* The expressions covered here are "^" followed by atoms, an atom being a
\* letter, digit or space (compared without case) or "." (any character but
\* a newline), each optionally followed by "*".

\* re.compile(pattern_str, re.IGNORECASE) raises re.error: a "*" with nothing
\* to repeat, a repeated "*", or parentheses that do not balance
RegexError(pattern_str) ==
    \/ \E i \in 2..Len(pattern_str) :
            pattern_str[i] = "*" /\ pattern_str[i - 1] \in {"^", "*", "("}
    \/ Cardinality({i \in DOMAIN pattern_str : pattern_str[i] = "("}) #
       Cardinality({i \in DOMAIN pattern_str : pattern_str[i] = ")"})

\* one atom against one character, under re.IGNORECASE
AtomMatches(atom, c) == IF atom = "." THEN c # "\n" ELSE Lower(atom) = Lower(c)

\* the expression re from its i-th character on matches s from position j on
RECURSIVE RegexMatchHere(_, _, _, _)
RegexMatchHere(re, i, s, j) ==
    IF i > Len(re) THEN TRUE
    ELSE IF i < Len(re) /\ re[i + 1] = "*"
    THEN \E k \in 0..(Len(s) - j + 1) :
            /\ \A x \in j..(j + k - 1) : AtomMatches(re[i], s[x])
            /\ RegexMatchHere(re, i + 2, s, j + k)
    ELSE /\ j <= Len(s)
         /\ AtomMatches(re[i], s[j])
         /\ RegexMatchHere(re, i + 1, s, j + 1)

\* pattern.search(line) for one compiled pattern: a "^" pattern is anchored at
\* the start of the line, any other pattern is the escaped string searched
\* without case
PatternSearch(pattern_str, line) ==
    IF pattern_str[1] = "^" THEN RegexMatchHere(pattern_str, 2, line, 1)
    ELSE ContainsIgnoreCase(line, pattern_str)

RECURSIVE MatchedFrom(_, _, _)
MatchedFrom(patterns, line, i) ==
    IF i > Len(patterns) THEN <<>>
    ELSE (IF PatternSearch(patterns[i], line) THEN <<patterns[i]>> ELSE <<>>)
         \o MatchedFrom(patterns, line, i + 1)

\* a wrong count: one per matching line instead of one per matching pattern
count_matches_per_line(patterns, line) ==
    LET matched == MatchedFrom(patterns, line, 1)
    IN  [count |-> IF matched = <<>> THEN 0 ELSE 1, matched_patterns |-> matched]

\* a wrong count: one per occurrence of a pattern in the line
RECURSIVE OccurrencesFrom(_, _, _)
OccurrencesFrom(patterns, line, i) ==
    IF i > Len(patterns) THEN 0
    ELSE Cardinality({k \in 1..Len(line) :
                        PatternSearch(patterns[i], SubSeq(line, k, Len(line)))
                        /\ ~PatternSearch(patterns[i], SubSeq(line, k + 1, Len(line)))})
         + OccurrencesFrom(patterns, line, i + 1)

count_occurrences(patterns, line) ==
    [count |-> OccurrencesFrom(patterns, line, 1),
     matched_patterns |-> MatchedFrom(patterns, line, 1)]

\* _count_matches: [count, matched_patterns]
count_matches(patterns, line) ==
    LET matched == MatchedFrom(patterns, line, 1)
    IN  [count |-> Len(matched), matched_patterns |-> matched]

\* ------------------------------------------------------------------------
\* Files, chunks and bounds
\* ------------------------------------------------------------------------

\* the watched paths: one '*.log' child of the watched directory and one
\* individually indexed file elsewhere
Paths == {"/d/app.log", "/e/b.log"}

Dirs == {"/d"}

\* dir_obj.glob("*.log") for an existing directory: its '*.log' children
DirOf(path) == IF path = "/d/app.log" THEN "/d" ELSE "/e"

\* every file and directory path a caller or the notification source names
FilePool == Paths \cup {"/d2/x.log", "/d2/y.txt", "/gone/z.log"}

DirPool == {"/d", "/e", "/d2", "/gone"}

\* the directories that exist (Path(...).exists())
ExistingDirs == {"/d", "/e", "/d2"}

\* the characters of a path string
PathText(path) ==
    CASE path = "/d/app.log" -> <<"/", "d", "/", "a", "p", "p", ".", "l", "o", "g">>
      [] path = "/e/b.log" -> <<"/", "e", "/", "b", ".", "l", "o", "g">>
      [] path = "/d2/x.log" -> <<"/", "d", "2", "/", "x", ".", "l", "o", "g">>
      [] path = "/d2/y.txt" -> <<"/", "d", "2", "/", "y", ".", "t", "x", "t">>
      [] path = "/gone/z.log" -> <<"/", "g", "o", "n", "e", "/", "z", ".", "l", "o", "g">>
      [] path = "/d" -> <<"/", "d">>
      [] path = "/e" -> <<"/", "e">>
      [] path = "/d2" -> <<"/", "d", "2">>
      [] path = "/gone" -> <<"/", "g", "o", "n", "e">>

\* str.startswith, str.endswith
StartsWith(s, prefix) == Len(prefix) <= Len(s) /\ SubSeq(s, 1, Len(prefix)) = prefix

EndsWith(s, suffix) ==
    Len(suffix) <= Len(s) /\ SubSeq(s, Len(s) - Len(suffix) + 1, Len(s)) = suffix

DotLog == <<".", "l", "o", "g">>

\* str(Path(filepath).parent)
ParentOf(filepath) ==
    LET text == PathText(filepath)
        slash == CHOOSE k \in DOMAIN text :
                    text[k] = "/" /\ \A j \in (k + 1)..Len(text) : text[j] # "/"
    IN  CHOOSE d \in DirPool : PathText(d) = SubSeq(text, 1, slash - 1)

\* what a writer appends in one write(): whole lines and partial lines
ChunkErrFailed == <<"E", "R", "R", "O", "R", " ", "F", "a", "i", "l", "e", "d", "\n">>

ChunkLate == <<"2", "0", "2", "4", "-", "0", "1", "-", "2", "1", " ", "e", "r", "r", "o", "r", "\n">>

ChunkInfo == <<"I", "N", "F", "O", "\n">>

\* a line that begins with a form feed (a page break written before it)
ChunkPage == <<"\f", "E", "R", "R", "O", "R", "\n">>

ChunkErr == <<"E", "R", "R">>

ChunkOr == <<"O", "R", "\n">>

\* the lines of the sample log of tests/conftest.py (temp_log_file)
LineInfoStart == <<"2", "0", "2", "4", "-", "0", "1", "-", "1", "5", " ", "1", "0", ":", "0", "0", ":", "0", "0", " ", "I", "N", "F", "O", " ", "S", "t", "a", "r", "t", "i", "n", "g", " ", "a", "p", "p", "l", "i", "c", "a", "t", "i", "o", "n", "\n">>

LineDebug == <<"2", "0", "2", "4", "-", "0", "1", "-", "1", "5", " ", "1", "0", ":", "0", "0", ":", "0", "1", " ", "D", "E", "B", "U", "G", " ", "L", "o", "a", "d", "i", "n", "g", " ", "c", "o", "n", "f", "i", "g", "u", "r", "a", "t", "i", "o", "n", "\n">>

LineErrorFailed == <<"2", "0", "2", "4", "-", "0", "1", "-", "1", "5", " ", "1", "0", ":", "0", "0", ":", "0", "2", " ", "E", "R", "R", "O", "R", " ", "F", "a", "i", "l", "e", "d", " ", "t", "o", " ", "c", "o", "n", "n", "e", "c", "t", " ", "t", "o", " ", "d", "a", "t", "a", "b", "a", "s", "e", "\n">>

LineInfoRetry == <<"2", "0", "2", "4", "-", "0", "1", "-", "1", "5", " ", "1", "0", ":", "0", "0", ":", "0", "3", " ", "I", "N", "F", "O", " ", "R", "e", "t", "r", "y", "i", "n", "g", " ", "c", "o", "n", "n", "e", "c", "t", "i", "o", "n", "\n">>

LineCritical == <<"2", "0", "2", "4", "-", "0", "1", "-", "1", "5", " ", "1", "0", ":", "0", "0", ":", "0", "4", " ", "C", "R", "I", "T", "I", "C", "A", "L", " ", "S", "y", "s", "t", "e", "m", " ", "s", "h", "u", "t", "d", "o", "w", "n", "\n">>

Chunks == {ChunkErrFailed, ChunkLate, ChunkInfo}

TailChunks == {ChunkErrFailed, ChunkInfo, ChunkErr, ChunkOr}

\* the pattern lists and datetime filters a caller configures
InfoPatterns == << <<"i", "n", "f", "o">> >>

PatternLists == {DEFAULT_ERROR_PATTERNS, InfoPatterns}

Jan10 == <<2024, 1, 10, 0, 0, 0>>

Jan20 == <<2024, 1, 20, 0, 0, 0>>

Filters == {<<None, None>>, <<Jan10, Jan20>>}

\* file modifications plus configuration calls in a behaviour of Spec
MaxOps == 2

\* file modifications in a behaviour of SpecLive
MaxLiveWrites == 2

\* appends in a behaviour of SpecTail
MaxTailWrites == 3

\* number of lines handed to one buffer in SpecRing
MaxRingAdds == 60

\* length of the generated logs of SpecSample
MaxSampleLines == 3

\* length of the pattern lists handed to set_error_patterns in SpecMatch
MaxPatterns == 2

\* set_error_patterns calls in a behaviour of SpecMatch
MaxPatternCalls == 1

\* appends in a behaviour of SpecRange
MaxRangeWrites == 2

\* add_indexed_file calls in a behaviour of SpecRegister
MaxAddCalls == 2

\* polling threads alive at once
MaxPollThreads == 2

\* configuration calls in a behaviour of SpecFallback
MaxWatchConfigs == 2

\* mutator calls (restore_file_state, reset_counts, reset_file_count) in a
\* behaviour of SpecAccess
MaxMutatorCalls == 2

\* writes and reset calls of a behaviour of the tailing with resets
MaxResetOps == 2

\* file writes and menu actions in a behaviour of the application
MaxAppWrites == 1

MaxAppCalls == 2

\* match events handed to the application, and the seconds they span
MaxSoundEvents == 7

MaxSoundTime == 4

\* writes in a behaviour of the tailing of paged text
MaxPageWrites == 2
MaxChunkLines == 3

\* scan threads created in a behaviour of SpecScan
MaxScans == 2

\* lines of a file handed to _is_log_file
MaxFileLines == 6

\* timestamps in a line handed to parse_log_timestamp
MaxStamps == 2

MAX_MATCHED_LINES_PER_FILE == 50

\* ------------------------------------------------------------------------
\* State
\* ------------------------------------------------------------------------

VARIABLES
    fs,                  \* [Paths -> [exists, content, mtime]]: the files
    clock,               \* filesystem time: the mtime of the last write
    file_positions,      \* dict path -> <<position, mtime>>
    file_error_counts,   \* dict path -> count
    file_matched_lines,  \* dict path -> deque of matched-line entries
    pattern_to_files,    \* dict pattern string -> set of paths
    pattern_strings,     \* the configured pattern strings, in order
    start_datetime,      \* datetime filter, None if absent
    end_datetime,
    watch_dirs,          \* set of watched directories
    watch_files,         \* set of indexed files
    chk,                 \* the _check_file call in flight between stat and read
    events,              \* history: the match callback's invocations
    track,               \* history: per path, what happened since its first observation
    nconfig,             \* history: number of configuration calls made
    ring_added,          \* history: per path, the direct _add_matched_line calls made
    ret,                 \* history: the outcome of the last call that returns or raises
    running,             \* MultiLogWatcher.running
    observer,            \* the watchdog Observer, None if absent
    watched_paths,       \* the directories the watcher believes it has scheduled
    poll_threads,        \* the polling threads that have not exited
    calls,               \* per calling thread, the call it is in and where
    watchdog,            \* whether `from watchdog.observers import Observer` succeeds
    views,               \* history: the file states a get_file_state call under way could
                         \* return if the accessors excluded one another
    scanner,             \* the fields of the LogScanner instance
    scan_threads,        \* the scan threads created so far, in order of creation
    notified,            \* history: for each scan thread, the callbacks it has invoked
    sound,               \* the application's alert sound state, and the times of the sounds
    limit                \* the bounds of this behaviour: [writes, configs, ops, writers]

fsVars == <<fs, clock>>

mapVars == <<file_positions, file_error_counts, file_matched_lines, pattern_to_files>>

cfgVars == <<pattern_strings, start_datetime, end_datetime, watch_dirs, watch_files>>

scanVars == <<scanner, scan_threads, notified>>

lifeVars == <<running, observer, watched_paths, poll_threads, calls, watchdog, views>>

vars == <<fs, clock, file_positions, file_error_counts, file_matched_lines,
          pattern_to_files, pattern_strings, start_datetime, end_datetime,
          watch_dirs, watch_files, chk, events, track, nconfig, ring_added, ret,
          running, observer, watched_paths, poll_threads, calls, watchdog, views,
          scanner, scan_threads, notified, sound, limit>>

\* Python dicts are functions on their key set
EmptyDict == [k \in {} |-> 0]

Put(d, k, v) == [x \in (DOMAIN d) \cup {k} |-> IF x = k THEN v ELSE d[x]]

Get(d, k, default) == IF k \in DOMAIN d THEN d[k] ELSE default

\* the threads that call into the watcher
Callers == {"main", "worker"}

\* a thread that is in no call
Idle == [op |-> "idle", pc |-> "", paths |-> {}, path |-> ""]

\* LogScanner.__init__
NewScanner ==
    [running |-> FALSE, thread |-> None, scan_path |-> None,
     found_count |-> 0, total_dirs |-> 0, scanned_dirs |-> 0]

\* self.max_sounds_per_burst of LogWatchMenuBar.__init__
max_sounds_per_burst == 5

\* timedelta(seconds=2), in the seconds of the model's wall clock
BurstSeconds == 2

\* self.sound_reset_time = None: no burst has begun
NoResetTime == -1

\* LogWatchMenuBar.__init__: sound_enabled (True unless configured), the
\* burst counter and its reset time; now is the wall clock and played the
\* times of the _play_sound calls made (history)
NewSound ==
    [enabled |-> TRUE, count |-> 0, reset_time |-> NoResetTime, now |-> 0, played |-> <<>>]

\* no thread is inside a call
AllIdle == \A t \in Callers : calls[t] = Idle

\* no call has returned anything yet
NoRet == [op |-> "none", arg |-> <<>>, value |-> <<>>, raised |-> FALSE]

NoCheck == [active |-> FALSE, path |-> "", held |-> <<>>, current_size |-> 0, current_mtime |-> 0,
            last_position |-> 0, rotated |-> FALSE]

\* ------------------------------------------------------------------------
\* Matched-line buffer and the per-line loop
\* ------------------------------------------------------------------------

\* a wrong buffer: a list without a maximum length
AppendUnbounded(dq, entry) == dq \o <<entry>>

\* deque(maxlen=MAX_MATCHED_LINES_PER_FILE).append(entry)
DequeAppend(dq, entry) ==
    IF Len(dq) >= MAX_MATCHED_LINES_PER_FILE
    THEN Tail(dq) \o <<entry>>
    ELSE dq \o <<entry>>

Entry(line_num, line_text, line_timestamp, matched_patterns) ==
    [line_num |-> line_num, text |-> Strip(line_text),
     timestamp |-> line_timestamp, matched_patterns |-> matched_patterns]

\* _add_matched_line, the buffer part
AddMatchedLine(lines, filepath, entry) ==
    Put(lines, filepath, DequeAppend(Get(lines, filepath, <<>>), entry))

\* _add_matched_line, the pattern_to_files part
AddPatternFiles(ptf, filepath, matched_patterns) ==
    LET ps == {matched_patterns[i] : i \in 1..Len(matched_patterns)}
    IN  [k \in (DOMAIN ptf) \cup ps |->
            IF k \in ps THEN Get(ptf, k, {}) \cup {filepath} ELSE ptf[k]]

\* a wrong rebuild: the old entries are kept
KeepMatchedLines(lines, file_key) == lines

\* file_matched_lines[file_key].clear() when the key is present
ClearMatchedLines(lines, file_key) ==
    IF file_key \in DOMAIN lines THEN Put(lines, file_key, <<>>) ELSE lines

\* pattern_to_files[pattern_str].discard(file_key) for every pattern
DiscardFromPatterns(ptf, file_key) == [k \in DOMAIN ptf |-> ptf[k] \ {file_key}]

\* What the loops compute for one line: the result m of _count_matches and,
\* for a matching line, parse_log_timestamp
WithTimestamp(m, line) ==
    [count |-> m.count, matched_patterns |-> m.matched_patterns,
     timestamp |-> IF m.count > 0 THEN parse_log_timestamp(line) ELSE None]

LineFacts(patterns, line) == WithTimestamp(count_matches(patterns, line), line)

\* The body of the per-line loops (check, _index_file_from_position,
\* _count_errors_in_file) for one line with the facts m.  acc carries the
\* running count, the buffers, the pattern index and the callback
\* invocations; `emit` says whether self.callback is invoked (check only);
\* acc.offset is history: the byte offset at which the line starts, recorded
\* with each callback.
ProcessLine(acc, line, line_num, m, filepath, emit) ==
    IF m.count > 0 /\ IsInDatetimeRange(m.timestamp, start_datetime, end_datetime)
    THEN [count |-> acc.count + m.count,
          any |-> TRUE,
          offset |-> acc.offset + Len(line) + 1,
          lines |-> AddMatchedLine(acc.lines, filepath,
                        Entry(line_num, line, m.timestamp, m.matched_patterns)),
          ptf |-> AddPatternFiles(acc.ptf, filepath, m.matched_patterns),
          events |-> IF emit
                     THEN acc.events \o
                          << [path |-> filepath, line_num |-> line_num,
                              text |-> Strip(line),
                              matched_patterns |-> m.matched_patterns,
                              offset |-> acc.offset] >>
                     ELSE acc.events]
    ELSE [acc EXCEPT !.offset = @ + Len(line) + 1]

\* the loop from line i on
RECURSIVE ProcessLines(_, _, _, _, _, _)
ProcessLines(lines, i, line_num, acc, filepath, emit) ==
    IF i > Len(lines) THEN acc
    ELSE ProcessLines(lines, i + 1, line_num + 1,
                      ProcessLine(acc, lines[i], line_num,
                                  LineFacts(pattern_strings, lines[i]), filepath, emit),
                      filepath, emit)

\* ------------------------------------------------------------------------
\* The watch set
\* ------------------------------------------------------------------------

\* files_to_check of reindex_* and _check_all_files: the '*.log' children of
\* the watched directories plus the indexed files
FilesToCheck ==
    {p \in Paths : DirOf(p) \in watch_dirs /\ fs[p].exists} \cup watch_files

\* _should_watch_file
ShouldWatchFile(filepath) ==
    \/ filepath \in watch_files
    \/ \E dir_path \in watch_dirs :
            /\ StartsWith(PathText(filepath), PathText(dir_path))
            /\ EndsWith(PathText(filepath), DotLog)

\* ------------------------------------------------------------------------
\* History bookkeeping (not program state)
\* ------------------------------------------------------------------------

\* seen: a check made the first observation of the path and its cursor was not
\*       replaced since; base: the size it observed; kept: how many leading
\*       bytes of the file are still the ones present then; rot: a check saw the
\*       file smaller than the cursor; quiet: a check of the path has returned
\*       and neither the file nor its cursor was written since; by: what wrote
\*       the cursor last; over: that write replaced a cursor written by
\*       restore_file_state; scan: how many leading bytes of the file are
\*       still the ones a reindex scanned last; fresh: since that scan no
\*       check saw the file smaller than the cursor and restore_file_state
\*       did not replace the cursor
NoTrack == [seen |-> FALSE, base |-> 0, kept |-> 0, rot |-> FALSE, quiet |-> FALSE,
            by |-> "none", over |-> FALSE, scan |-> 0, fresh |-> FALSE]

\* the reindex `by` scans the file of p
Scans(by, p) ==
    /\ by \in {"reindex_all_files", "reindex_from_positions"}
    /\ p \in FilesToCheck
    /\ fs[p].exists

Min(a, b) == IF a < b THEN a ELSE b

\* the file of p was modified and now keeps only its first n old bytes
TrackWrite(p, n) ==
    [track EXCEPT ![p] = [@ EXCEPT !.kept = Min(@, n), !.quiet = FALSE,
                                   !.scan = Min(@, n)]]

\* the operation `by` replaced or dropped the per-file state of the paths ps
TrackReset(ps, by) ==
    [p \in Paths |->
        IF p \in ps
        THEN [NoTrack EXCEPT !.by = by, !.over = (track[p].by = "restore_file_state"),
                             !.scan = IF Scans(by, p) THEN Len(fs[p].content)
                                      ELSE track[p].scan,
                             !.fresh = Scans(by, p)
                                       \/ (track[p].fresh /\ by # "restore_file_state")]
        ELSE track[p]]

\* ------------------------------------------------------------------------
\* The environment: writers of the log files
\* ------------------------------------------------------------------------

\* a writer appends chunk c to the file of p (creating it if absent)
FileAppend(p, c) ==
    /\ clock < limit.writes
    /\ clock + nconfig < limit.ops
    /\ p \in limit.writers
    /\ clock' = clock + 1
    /\ fs' = [fs EXCEPT ![p] = [exists |-> TRUE, content |-> @.content \o c,
                                mtime |-> clock + 1]]
    /\ track' = TrackWrite(p, Len(fs[p].content))
    /\ UNCHANGED <<mapVars, cfgVars, chk, events, nconfig>>

\* the file of p is cut to its first n bytes, n = 0 (copytruncate, open for
\* writing) or the end of one of its lines
FileTruncate(p, n) ==
    /\ clock < limit.writes
    /\ clock + nconfig < limit.ops
    /\ p \in limit.writers
    /\ fs[p].exists
    /\ n < Len(fs[p].content)
    /\ IF n = 0 THEN TRUE ELSE fs[p].content[n] = "\n"
    /\ clock' = clock + 1
    /\ fs' = [fs EXCEPT ![p] = [exists |-> TRUE, content |-> SubSeq(@.content, 1, n),
                                mtime |-> clock + 1]]
    /\ track' = TrackWrite(p, n)
    /\ UNCHANGED <<mapVars, cfgVars, chk, events, nconfig>>

\* the file of p is removed
FileDelete(p) ==
    /\ clock < limit.writes
    /\ clock + nconfig < limit.ops
    /\ p \in limit.writers
    /\ fs[p].exists
    /\ clock' = clock + 1
    /\ fs' = [fs EXCEPT ![p] = [exists |-> FALSE, content |-> <<>>, mtime |-> 0]]
    /\ track' = TrackWrite(p, 0)
    /\ UNCHANGED <<mapVars, cfgVars, chk, events, nconfig>>

\* ------------------------------------------------------------------------
\* _check_file
\* ------------------------------------------------------------------------

\* a wrong first-sight cursor: the start of the file instead of its end
FirstSeenCursorAtStart(current_size, current_mtime) == <<0, current_mtime>>

\* file_positions[file_key] on first sight
FirstSeenCursor(current_size, current_mtime) == <<current_size, current_mtime>>

\* "if current_mtime == last_mtime and current_size == last_position: return"
Unmodified(current_size, current_mtime, last_position, last_mtime) ==
    current_mtime = last_mtime /\ current_size = last_position

\* a wrong truncation branch: last_position is kept
RotationStartKept(last_position) == last_position

\* last_position after a truncation was detected
RotationStart(last_position) == 0

\* file_positions[file_key] after the new content was read
AdvancedCursor(current_size, current_mtime) == <<current_size, current_mtime>>

\* _check_file up to its reads: exists(), stat(), the first-sight branch, the
\* unchanged test and the truncation test.  The call either returns here or
\* goes on to read the file in CheckRead; writers may act in between.
\* chk.held remembers the buffer the path had when the call began (history
\* bookkeeping, not a variable of the code).
CheckStat(p) ==
    /\ ~chk.active
    /\ ShouldWatchFile(p)
    /\ UNCHANGED <<fsVars, cfgVars, pattern_to_files, events, nconfig>>
    /\ IF ~fs[p].exists
       THEN /\ UNCHANGED <<file_positions, file_error_counts, file_matched_lines, chk>>
            /\ track' = [track EXCEPT ![p].quiet = TRUE]
       ELSE LET current_size == Len(fs[p].content)
                current_mtime == fs[p].mtime
            IN  IF p \notin DOMAIN file_positions
                THEN /\ file_positions' =
                            Put(file_positions, p, FirstSeenCursor(current_size, current_mtime))
                     /\ file_error_counts' =
                            IF p \in DOMAIN file_error_counts THEN file_error_counts
                            ELSE Put(file_error_counts, p, 0)
                     /\ UNCHANGED <<file_matched_lines, chk>>
                     /\ track' = [track EXCEPT ![p] =
                                    [seen |-> TRUE, base |-> current_size,
                                     kept |-> current_size, rot |-> FALSE, quiet |-> TRUE,
                                     by |-> "check", over |-> FALSE,
                                     scan |-> track[p].scan, fresh |-> track[p].fresh]]
                ELSE LET last_mtime == file_positions[p][2]
                         saved == file_positions[p][1]
                         rotated == current_size < saved
                         last_position == IF rotated THEN RotationStart(saved) ELSE saved
                     IN  IF Unmodified(current_size, current_mtime, saved, last_mtime)
                         THEN /\ UNCHANGED <<file_positions, file_error_counts,
                                             file_matched_lines, chk>>
                              /\ track' = [track EXCEPT ![p].quiet = TRUE]
                         ELSE /\ file_matched_lines' =
                                    IF rotated THEN ClearMatchedLines(file_matched_lines, p)
                                    ELSE file_matched_lines
                              /\ UNCHANGED <<file_positions, file_error_counts>>
                              /\ track' = [track EXCEPT
                                              ![p].quiet = @ \/ current_size = last_position,
                                              ![p].rot = @ \/ rotated,
                                              ![p].fresh = @ /\ ~rotated]
                              /\ IF current_size = last_position
                                 THEN /\ chk' = chk
                                 ELSE /\ chk' = [active |-> TRUE, path |-> p,
                                                 held |-> Get(file_matched_lines, p, None),
                                                 current_size |-> current_size,
                                                 current_mtime |-> current_mtime,
                                                 last_position |-> last_position,
                                                 rotated |-> rotated]

\* the new content read by _check_file: from last_position to the end of file
NewContent(content, last_position) == SubSeq(content, last_position + 1, Len(content))

\* start_line_num: 1 + the newlines of content_before = f.read(last_position)
StartLineNum(content, last_position) ==
    CountNewlines(SubSeq(content, 1, Min(last_position, Len(content)))) + 1

\* what _check_file stores once the loop over the new lines has produced acc
StoreChecked(p, acc) ==
    /\ file_positions' =
            Put(file_positions, p, AdvancedCursor(chk.current_size, chk.current_mtime))
    /\ file_error_counts' =
            IF acc.any THEN Put(file_error_counts, p, acc.count) ELSE file_error_counts
    /\ file_matched_lines' = acc.lines
    /\ pattern_to_files' = acc.ptf
    /\ events' = acc.events

\* a wrong count: a detected truncation starts the count of the file again
CountResetOnRotation(count, rotated) == IF rotated THEN 0 ELSE count

\* the count "file_error_counts[file_key] += match_count" adds to: the stored
\* one, also when a truncation was detected
CountBeforeRead(count, rotated) == count

\* the rest of _check_file: count the lines before last_position, read from
\* last_position to the end of the file, store the cursor, run the line loop
CheckRead ==
    /\ chk.active
    /\ UNCHANGED <<fsVars, cfgVars, nconfig>>
    /\ chk' = NoCheck
    /\ IF ~fs[chk.path].exists
       THEN /\ UNCHANGED <<mapVars, events>>
            /\ track' = [track EXCEPT ![chk.path].quiet = TRUE]
       ELSE /\ StoreChecked(chk.path,
                  ProcessLines(Splitlines(NewContent(fs[chk.path].content, chk.last_position)),
                      1, StartLineNum(fs[chk.path].content, chk.last_position),
                      [count |-> CountBeforeRead(Get(file_error_counts, chk.path, 0), chk.rotated),
                       any |-> FALSE, offset |-> chk.last_position,
                       lines |-> file_matched_lines, ptf |-> pattern_to_files,
                       events |-> events], chk.path, TRUE))
            /\ track' = [track EXCEPT ![chk.path].by = "check", ![chk.path].quiet = TRUE]

\* the rest of _check_file when self.callback raises at the r-th new line: the
\* cursor is already stored, the lines up to r have gone through the loop
\* (line r counted and buffered before its callback is invoked), the
\* exception leaves the loop and _check_file_immediate swallows it
CheckReadRaising(r) ==
    /\ chk.active
    /\ fs[chk.path].exists
    /\ r \in DOMAIN Splitlines(NewContent(fs[chk.path].content, chk.last_position))
    /\ LET lines == Splitlines(NewContent(fs[chk.path].content, chk.last_position))
           m == LineFacts(pattern_strings, lines[r])
       IN  /\ m.count > 0
           /\ IsInDatetimeRange(m.timestamp, start_datetime, end_datetime)
           /\ StoreChecked(chk.path,
                  ProcessLines(SubSeq(lines, 1, r),
                      1, StartLineNum(fs[chk.path].content, chk.last_position),
                      [count |-> CountBeforeRead(Get(file_error_counts, chk.path, 0), chk.rotated),
                       any |-> FALSE, offset |-> chk.last_position,
                       lines |-> file_matched_lines, ptf |-> pattern_to_files,
                       events |-> events], chk.path, TRUE))
           /\ ret' = [op |-> "callback", arg |-> chk.path,
                      value |-> StartLineNum(fs[chk.path].content, chk.last_position) + r - 1,
                      raised |-> TRUE]
    /\ chk' = NoCheck
    /\ track' = [track EXCEPT ![chk.path].by = "check", ![chk.path].quiet = TRUE]
    /\ UNCHANGED <<fsVars, cfgVars, nconfig>>

\* ------------------------------------------------------------------------
\* Reindexing
\* ------------------------------------------------------------------------

\* a wrong final count: the scan's total added to the stored count
IndexedCountAdded(total_count, saved_count) == saved_count + total_count

\* file_error_counts[file_key] at the end of _index_file_from_position
IndexedCount(total_count, saved_count) == total_count

\* the text the full scans read: the whole file, whatever the saved position
ScannedContent(content, saved_pos) == content

\* a wrong scan: self.callback invoked for every qualifying line
ScanEmitsAlways(filepath) == TRUE

\* whether the line loop of a scan invokes self.callback: it never does (the
\* only callback of _count_errors_in_file is its own callback_error_found)
ScanEmits(filepath) == FALSE

\* the scan of the whole file shared by _count_errors_in_file and
\* _index_file_from_position: clear the buffer of p, discard p from the
\* pattern index, run the line loop
ScanFile(st, p, saved_pos) ==
    ProcessLines(FileLines(ScannedContent(fs[p].content, saved_pos)), 1, 1,
        [count |-> 0, any |-> FALSE, offset |-> 0,
         lines |-> ClearMatchedLines(st.lines, p),
         ptf |-> DiscardFromPatterns(st.ptf, p),
         events |-> st.events], p, ScanEmits(p))

\* the assignments that end _count_errors_in_file
CountedState(st, p, acc) ==
    [positions |-> Put(st.positions, p, <<Len(fs[p].content), fs[p].mtime>>),
     counts |-> Put(st.counts, p, acc.count),
     lines |-> acc.lines,
     ptf |-> acc.ptf,
     events |-> acc.events]

\* _count_errors_in_file on the per-file maps st
CountErrorsInFile(st, p) ==
    IF ~fs[p].exists THEN st ELSE CountedState(st, p, ScanFile(st, p, 0))

\* "if current_size < saved_pos or (saved_mtime > 0 and current_mtime != saved_mtime)"
StartsOver(saved, current_size, current_mtime) ==
    current_size < saved[1] \/ (saved[2] > 0 /\ current_mtime # saved[2])

\* saved_pos and the counts after that test
SavedPos(st, p) ==
    IF StartsOver(Get(st.positions, p, <<0, 0>>), Len(fs[p].content), fs[p].mtime)
    THEN 0 ELSE Get(st.positions, p, <<0, 0>>)[1]

CountsAfterTest(st, p) ==
    IF StartsOver(Get(st.positions, p, <<0, 0>>), Len(fs[p].content), fs[p].mtime)
    THEN Put(st.counts, p, 0) ELSE st.counts

\* the assignments that end _index_file_from_position
IndexedState(st, p, acc) ==
    [positions |-> Put(st.positions, p, <<Len(fs[p].content), fs[p].mtime>>),
     counts |-> Put(CountsAfterTest(st, p), p,
                    IndexedCount(acc.count, Get(CountsAfterTest(st, p), p, 0))),
     lines |-> acc.lines,
     ptf |-> acc.ptf,
     events |-> acc.events]

\* _index_file_from_position on the per-file maps st
IndexFileFromPosition(st, p) ==
    IF ~fs[p].exists THEN st ELSE IndexedState(st, p, ScanFile(st, p, SavedPos(st, p)))

\* the loop "for filepath in files_to_check" of the two reindex operations
RECURSIVE ForEachFile(_, _, _)
ForEachFile(files, st, full) ==
    IF files = {} THEN st
    ELSE ForEachFile(files \ {CHOOSE q \in files : TRUE},
                     IF full THEN CountErrorsInFile(st, CHOOSE q \in files : TRUE)
                     ELSE IndexFileFromPosition(st, CHOOSE q \in files : TRUE),
                     full)

\* the per-file maps after a reindex
StoreMaps(st) ==
    /\ file_positions' = st.positions
    /\ file_error_counts' = st.counts
    /\ file_matched_lines' = st.lines
    /\ pattern_to_files' = st.ptf
    /\ events' = st.events

\* reindex_all_files: clear counts and cursors, scan every file from byte 0
reindex_all_files ==
    /\ ~chk.active
    /\ UNCHANGED <<fsVars, cfgVars, chk, nconfig>>
    /\ track' = TrackReset(Paths, "reindex_all_files")
    /\ StoreMaps(ForEachFile(FilesToCheck,
                     [positions |-> EmptyDict, counts |-> EmptyDict,
                      lines |-> file_matched_lines, ptf |-> pattern_to_files,
                      events |-> events], TRUE))

\* reindex_from_positions
reindex_from_positions ==
    /\ ~chk.active
    /\ UNCHANGED <<fsVars, cfgVars, chk, nconfig>>
    /\ track' = TrackReset(FilesToCheck, "reindex_from_positions")
    /\ StoreMaps(ForEachFile(FilesToCheck,
                     [positions |-> file_positions, counts |-> file_error_counts,
                      lines |-> file_matched_lines, ptf |-> pattern_to_files,
                      events |-> events], FALSE))

\* ------------------------------------------------------------------------
\* Configuration and persisted state
\* ------------------------------------------------------------------------

\* restore_file_state({p: {position, mtime, error_count}})
restore_file_state(p, position, mtime, error_count) ==
    /\ ~chk.active
    /\ nconfig < limit.configs
    /\ clock + nconfig < limit.ops
    /\ nconfig' = nconfig + 1
    /\ file_positions' = Put(file_positions, p, <<position, mtime>>)
    /\ file_error_counts' = Put(file_error_counts, p, error_count)
    /\ track' = TrackReset({p}, "restore_file_state")
    /\ UNCHANGED <<fsVars, cfgVars, file_matched_lines, pattern_to_files, chk, events>>

\* the entries of `patterns` on which re.compile raises
BadPatterns(patterns) ==
    {i \in DOMAIN patterns :
        patterns[i] # <<>> /\ patterns[i][1] = "^" /\ RegexError(patterns[i])}

\* a wrong compile step: nothing is ever raised
CompileNeverFails(patterns) == FALSE

CompileFails(patterns) == BadPatterns(patterns) # {}

\* the entries the loop of set_error_patterns gets through: all of them, or
\* those before the first one on which re.compile raises
CompiledPrefix(patterns) ==
    IF CompileFails(patterns)
    THEN SubSeq(patterns, 1,
                (CHOOSE i \in BadPatterns(patterns) : \A j \in BadPatterns(patterns) : i <= j) - 1)
    ELSE patterns

\* set_error_patterns: error_patterns and pattern_strings are emptied, then
\* every non-empty pattern string is compiled and appended, in order; the
\* exception of re.compile is not caught
set_error_patterns(patterns) ==
    /\ ~chk.active
    /\ nconfig < limit.configs
    /\ clock + nconfig < limit.ops
    /\ nconfig' = nconfig + 1
    /\ pattern_strings' = SelectSeq(CompiledPrefix(patterns), LAMBDA ps : ps # <<>>)
    /\ ret' = [op |-> "set_error_patterns", arg |-> patterns, value |-> <<>>,
               raised |-> CompileFails(patterns)]
    /\ UNCHANGED <<fsVars, mapVars, start_datetime, end_datetime, watch_dirs, watch_files,
                   chk, events, track>>

\* set_datetime_filter
set_datetime_filter(start_dt, end_dt) ==
    /\ ~chk.active
    /\ nconfig < limit.configs
    /\ clock + nconfig < limit.ops
    /\ nconfig' = nconfig + 1
    /\ start_datetime' = start_dt
    /\ end_datetime' = end_dt
    /\ UNCHANGED <<fsVars, mapVars, pattern_strings, watch_dirs, watch_files,
                   chk, events, track>>

\* set_directories
set_directories(directories) ==
    /\ ~chk.active
    /\ nconfig < limit.configs
    /\ clock + nconfig < limit.ops
    /\ nconfig' = nconfig + 1
    /\ watch_dirs' = directories
    /\ UNCHANGED <<fsVars, mapVars, pattern_strings, start_datetime, end_datetime,
                   watch_files, chk, events, track>>

\* a wrong set_indexed_files: the cursors of the paths taken out of the
\* indexed set are dropped with them
SetIndexedFilesDropping(files) ==
    /\ ~chk.active
    /\ nconfig < limit.configs
    /\ clock + nconfig < limit.ops
    /\ nconfig' = nconfig + 1
    /\ watch_files' = files
    /\ file_positions' =
            [p \in DOMAIN file_positions \ (watch_files \ files) |-> file_positions[p]]
    /\ UNCHANGED <<fsVars, file_error_counts, file_matched_lines, pattern_to_files,
                   pattern_strings, start_datetime, end_datetime,
                   watch_dirs, chk, events, track>>

\* set_indexed_files
set_indexed_files(files) ==
    /\ ~chk.active
    /\ nconfig < limit.configs
    /\ clock + nconfig < limit.ops
    /\ nconfig' = nconfig + 1
    /\ watch_files' = files
    /\ UNCHANGED <<fsVars, mapVars, pattern_strings, start_datetime, end_datetime,
                   watch_dirs, chk, events, track>>

\* ------------------------------------------------------------------------
\* Resetting the counts (a caller that makes one call at a time)
\* ------------------------------------------------------------------------

\* a wrong reset of one file: every count is set to 0
ResetEveryCount(counts, filepath) == [k \in DOMAIN counts |-> 0]

\* "if filepath in self.file_error_counts: self.file_error_counts[filepath] = 0"
ResetCount(counts, filepath) ==
    IF filepath \in DOMAIN counts THEN Put(counts, filepath, 0) ELSE counts

\* the loop of reset_file_count over pattern_to_files: the path is discarded
\* from every set and a set left empty is deleted
ResetFilePatterns(ptf, filepath) ==
    [k \in {x \in DOMAIN ptf : ptf[x] \ {filepath} # {}} |-> ptf[k] \ {filepath}]

\* reset_counts()
reset_counts ==
    /\ ~chk.active
    /\ nconfig < limit.configs
    /\ clock + nconfig < limit.ops
    /\ nconfig' = nconfig + 1
    /\ file_error_counts' = EmptyDict
    /\ file_matched_lines' = EmptyDict
    /\ pattern_to_files' = EmptyDict
    /\ UNCHANGED <<fsVars, cfgVars, file_positions, chk, events, track>>

\* reset_file_count(filepath)
reset_file_count(filepath) ==
    /\ ~chk.active
    /\ nconfig < limit.configs
    /\ clock + nconfig < limit.ops
    /\ nconfig' = nconfig + 1
    /\ file_error_counts' = ResetCount(file_error_counts, filepath)
    /\ file_matched_lines' = ClearMatchedLines(file_matched_lines, filepath)
    /\ pattern_to_files' = ResetFilePatterns(pattern_to_files, filepath)
    /\ UNCHANGED <<fsVars, cfgVars, file_positions, chk, events, track>>

\* ------------------------------------------------------------------------
\* Specifications
\* ------------------------------------------------------------------------

\* A watcher constructed with the default patterns and given its watch
\* sets (the directory /d and the indexed file /e/b.log); app.log holds
\* `content`, b.log holds one line if it exists.
InitAll(lim, contents, b_exists, available) ==
    /\ fs \in {[p \in Paths |->
                  IF p = "/d/app.log"
                  THEN [exists |-> TRUE, content |-> c, mtime |-> 0]
                  ELSE [exists |-> b_exists,
                        content |-> IF b_exists THEN ChunkLate ELSE <<>>,
                        mtime |-> 0]] : c \in contents}
    /\ clock = 0
    /\ file_positions = EmptyDict
    /\ file_error_counts = EmptyDict
    /\ file_matched_lines = EmptyDict
    /\ pattern_to_files = EmptyDict
    /\ pattern_strings = DEFAULT_ERROR_PATTERNS
    /\ start_datetime = None
    /\ end_datetime = None
    /\ watch_dirs = Dirs
    /\ watch_files = {"/e/b.log"}
    /\ chk = NoCheck
    /\ events = <<>>
    /\ track = [p \in Paths |-> NoTrack]
    /\ nconfig = 0
    /\ ring_added = [p \in Paths |-> 0]
    /\ ret = NoRet
    /\ running = FALSE
    /\ observer = None
    /\ watched_paths = {}
    /\ poll_threads = 0
    /\ calls = [t \in Callers |-> Idle]
    /\ watchdog \in available
    /\ views = {}
    /\ scanner = NewScanner
    /\ scan_threads = <<>>
    /\ notified = <<>>
    /\ sound = NewSound
    /\ limit = lim

\* the same where the watchdog package can be imported
InitWith(lim, contents, b_exists) == InitAll(lim, contents, b_exists, {TRUE})

\* the contents app.log starts with
InitContents == {ChunkErrFailed, ChunkInfo \o ChunkErrFailed}

Check == CheckRead \/ \E p \in Paths : CheckStat(p)

Writers ==
    \/ \E p \in Paths, c \in Chunks : FileAppend(p, c)
    \/ \E p \in Paths : \E n \in 0..(Len(fs[p].content) - 1) : FileTruncate(p, n)
    \/ \E p \in Paths : FileDelete(p)

Reindex == reindex_all_files \/ reindex_from_positions

ConfigurePatterns ==
    \E patterns \in PatternLists \ {pattern_strings} : set_error_patterns(patterns)

Configure ==
    \/ \E p \in limit.writers : \E position \in {0, 5, 100}, mtime \in {0, fs[p].mtime} :
            restore_file_state(p, position, mtime, 7)
    \/ \E f \in Filters \ {<<start_datetime, end_datetime>>} : set_datetime_filter(f[1], f[2])
    \/ \E directories \in (SUBSET Dirs) \ {watch_dirs} : set_directories(directories)
    \/ \E files \in {{}, Paths} : set_indexed_files(files)

\* The whole system: writers, live tailing, reindexing, configuration
Init ==
    InitWith([writes |-> MaxOps, configs |-> MaxOps, ops |-> MaxOps,
              writers |-> {"/d/app.log"}],
             {ChunkInfo \o ChunkErrFailed}, TRUE)

Next ==
    /\ \/ (Writers \/ Check \/ Reindex \/ Configure) /\ UNCHANGED ret
       \/ ConfigurePatterns
    /\ UNCHANGED <<limit, ring_added, sound, scanVars, lifeVars>>

Spec == Init /\ [][Next]_vars

\* Live tailing: writers and check only
InitLive ==
    InitWith([writes |-> MaxLiveWrites, configs |-> 0, ops |-> MaxLiveWrites, writers |-> {"/d/app.log"}],
             InitContents, FALSE)

NextLive == (Writers \/ Check) /\ UNCHANGED <<limit, ring_added, sound, scanVars, ret, lifeVars>>

SpecLive == InitLive /\ [][NextLive]_vars

\* Tailing with resets: a full rescan fills the counts and the buffers, the
\* caller resets them, writers and checks go on
InitReset ==
    InitWith([writes |-> MaxResetOps, configs |-> MaxResetOps, ops |-> MaxResetOps,
              writers |-> {"/d/app.log"}],
             {ChunkErrFailed \o ChunkInfo}, TRUE)

NextReset ==
    /\ \/ (Writers \/ Check \/ reindex_all_files) /\ UNCHANGED ret
       \/ reset_counts /\ ret' = [op |-> "reset_counts", arg |-> "", value |-> "returned",
                                  raised |-> FALSE]
       \/ \E filepath \in Paths :
            /\ reset_file_count(filepath)
            /\ ret' = [op |-> "reset_file_count", arg |-> filepath, value |-> "returned",
                       raised |-> FALSE]
    /\ UNCHANGED <<limit, ring_added, sound, scanVars, lifeVars>>

SpecReset == InitReset /\ [][NextReset]_vars

\* Tailing of paged text: writers append whole lines, some of which begin
\* with a form feed
PageChunks == {ChunkErrFailed, ChunkInfo, ChunkPage, ChunkPage \o ChunkErrFailed}

InitPage ==
    InitWith([writes |-> MaxPageWrites, configs |-> 0, ops |-> MaxPageWrites,
              writers |-> {"/d/app.log"}],
             {ChunkInfo}, FALSE)

NextPage ==
    (Check \/ \E p \in Paths, c \in PageChunks : FileAppend(p, c))
    /\ UNCHANGED <<limit, ring_added, sound, scanVars, ret, lifeVars>>

SpecPage == InitPage /\ [][NextPage]_vars

\* Append-only tailing: writers that only append, whole and partial lines
InitTail ==
    InitWith([writes |-> MaxTailWrites, configs |-> 0, ops |-> MaxTailWrites, writers |-> {"/d/app.log"}],
             {ChunkInfo}, FALSE)

NextTail ==
    (Check \/ \E p \in Paths, c \in TailChunks : FileAppend(p, c))
    /\ UNCHANGED <<limit, ring_added, sound, scanVars, ret, lifeVars>>

SpecTail == InitTail /\ [][NextTail]_vars

\* Tailing with a callback that may raise: writers append whole lines, the
\* callback of a check raises for a qualifying line or returns
CallbackChunks == {ChunkErrFailed, ChunkInfo}

NextCallback ==
    \/ /\ Check \/ \E p \in Paths, c \in CallbackChunks : FileAppend(p, c)
       /\ UNCHANGED <<limit, ring_added, sound, scanVars, ret, lifeVars>>
    \/ /\ \E r \in 1..MaxChunkLines : CheckReadRaising(r)
       /\ UNCHANGED <<limit, ring_added, sound, scanVars, lifeVars>>

SpecCallback == InitTail /\ [][NextCallback]_vars

\* The matched-line buffer alone: lines 0, 1, 2, ... handed to
\* _add_matched_line one after the other (tests/test_error_patterns.py,
\* test_max_matched_lines)
RingText == <<"E", "r", "r", "o", "r">>

add_matched_line(p) ==
    /\ ring_added[p] < MaxRingAdds
    /\ ring_added' = [ring_added EXCEPT ![p] = @ + 1]
    /\ file_matched_lines' =
            AddMatchedLine(file_matched_lines, p, Entry(ring_added[p], RingText, None, <<>>))
    /\ pattern_to_files' = AddPatternFiles(pattern_to_files, p, <<>>)
    /\ UNCHANGED <<fsVars, cfgVars, file_positions, file_error_counts, chk, events, track,
                   nconfig, ret, lifeVars, scanVars, limit, sound>>

InitRing == InitWith([writes |-> 0, configs |-> 0, ops |-> 0, writers |-> {}], {<<>>}, FALSE)

NextRing == \E p \in Paths : add_matched_line(p)

SpecRing == InitRing /\ [][NextRing]_vars

\* A full scan of the sample log of tests/conftest.py (temp_log_file) and of
\* shorter logs made of its lines
SampleLines == {LineInfoStart, LineDebug, LineErrorFailed, LineInfoRetry, LineCritical}

SampleLog == LineInfoStart \o LineDebug \o LineErrorFailed \o LineInfoRetry \o LineCritical

RECURSIVE LogsOfLength(_)
LogsOfLength(n) ==
    IF n = 0 THEN {<<>>}
    ELSE {log \o line : log \in LogsOfLength(n - 1), line \in SampleLines}

SampleLogs == {SampleLog} \cup UNION {LogsOfLength(n) : n \in 0..MaxSampleLines}

InitSample == InitWith([writes |-> 0, configs |-> 0, ops |-> 0, writers |-> {}], SampleLogs, FALSE)

NextSample == Reindex /\ UNCHANGED <<limit, ring_added, sound, scanVars, ret, lifeVars>>

SpecSample == InitSample /\ [][NextSample]_vars

\* Pattern matching alone: set_error_patterns with lists drawn from a pool of
\* literal, empty, regular-expression and malformed pattern strings, and
\* _count_matches on lines drawn from a pool (tests/test_error_patterns.py)
PatternPool ==
    {<<"e", "r", "r", "o", "r">>,
     <<"f", "a", "i", "l", "e", "d">>,
     <<>>,
     <<"^", "e", "r", "r">>,
     <<"^", "e", ".", "*", "d">>,
     <<"^", "(", "e", "r", "r">>,
     <<"^", "*">>}

RECURSIVE ListsOfLength(_)
ListsOfLength(n) ==
    IF n = 0 THEN {<<>>}
    ELSE {Append(l, ps) : l \in ListsOfLength(n - 1), ps \in PatternPool}

PatternInputs == UNION {ListsOfLength(n) : n \in 0..MaxPatterns}

LinePool ==
    {<<"e", "r", "r", "o", "r", " ", "e", "r", "r", "o", "r", " ", "e", "r", "r", "o", "r">>,
     <<"E", "R", "R", "O", "R", ":", " ", "C", "o", "n", "n", "e", "c", "t", "i", "o", "n", " ", "f", "a", "i", "l", "e", "d">>,
     <<"I", "N", "F", "O", " ", "o", "k">>,
     <<"E", "r", "r", "o", "r">>,
     <<"t", "e", "r", "r", "o", "r">>,
     <<>>}

\* a call of _count_matches(line)
count_matches_call(line) ==
    /\ ret' = [op |-> "count_matches", arg |-> line,
               value |-> count_matches(pattern_strings, line), raised |-> FALSE]
    /\ UNCHANGED <<fsVars, mapVars, cfgVars, chk, events, track, nconfig>>

InitMatch ==
    InitWith([writes |-> 0, configs |-> MaxPatternCalls, ops |-> MaxPatternCalls,
              writers |-> {}], {<<>>}, FALSE)

NextMatch ==
    /\ \/ \E patterns \in PatternInputs : set_error_patterns(patterns)
       \/ \E line \in LinePool : count_matches_call(line)
    /\ UNCHANGED <<limit, ring_added, sound, scanVars, lifeVars>>

SpecMatch == InitMatch /\ [][NextMatch]_vars

\* The datetime filter: lines dated before, on and after the bounds of the
\* range of tests/test_error_patterns.py (test_range_filter) and an undated
\* line are appended; the filter is set; check and the reindexes run
ChunkJan09Jan10 ==
    <<"2", "0", "2", "4", "-", "0", "1", "-", "0", "9", " ", "e", "r", "r", "o", "r", "\n">>
    \o <<"2", "0", "2", "4", "-", "0", "1", "-", "1", "0", " ", "e", "r", "r", "o", "r", "\n">>

ChunkJan20Jan21 ==
    <<"2", "0", "2", "4", "-", "0", "1", "-", "2", "0", " ", "e", "r", "r", "o", "r", "\n">>
    \o ChunkLate

RangeChunks == {ChunkJan09Jan10, ChunkJan20Jan21, ChunkErrFailed}

RangeFilters == {None, Jan10} \X {None, Jan20}

InitRange ==
    InitWith([writes |-> MaxRangeWrites, configs |-> 1, ops |-> MaxRangeWrites + 1,
              writers |-> {"/d/app.log"}],
             {<<>>}, FALSE)

NextRange ==
    /\ \/ \E c \in RangeChunks : FileAppend("/d/app.log", c)
       \/ CheckStat("/d/app.log")
       \/ CheckRead
       \/ Reindex
       \/ \E f \in RangeFilters \ {<<start_datetime, end_datetime>>} :
                set_datetime_filter(f[1], f[2])
    /\ UNCHANGED <<limit, ring_added, sound, scanVars, ret, lifeVars>>

SpecRange == InitRange /\ [][NextRange]_vars

\* ------------------------------------------------------------------------
\* start, stop and the registration of directories with the observer
\* ------------------------------------------------------------------------

\* Observer(): nothing scheduled, not started; watches counts the
\* observer.schedule calls made for each path
NewObserver == [started |-> FALSE, watches |-> [d \in DirPool |-> 0]]

\* paths_to_watch of _update_watches, computed under the lock
PathsToWatch ==
    {dir_path \in watch_dirs : dir_path \in ExistingDirs}
    \cup {ParentOf(filepath) : filepath \in {f \in watch_files : ParentOf(f) \in ExistingDirs}}

\* a wrong start: no test of self.running
StartUnguarded(is_running) == FALSE

\* `if self.running: return` of start
AlreadyRunning(is_running) == is_running

Returned(op, t) == [op |-> op, arg |-> t, value |-> "returned", raised |-> FALSE]

\* start() up to its call of _update_watches; without watchdog the whole of
\* start(): _start_polling creates and starts the polling thread
start(t) ==
    /\ calls[t] = Idle
    /\ UNCHANGED <<fsVars, mapVars, cfgVars, chk, events, track, nconfig>>
    /\ IF AlreadyRunning(running)
       THEN /\ ret' = [op |-> "start", arg |-> t, value |-> "running", raised |-> FALSE]
            /\ UNCHANGED lifeVars
       ELSE /\ running' = TRUE
            /\ UNCHANGED <<watched_paths, watchdog>>
            /\ IF watchdog
               THEN /\ observer' = NewObserver
                    /\ calls' = [calls EXCEPT ![t] =
                                    [op |-> "start", pc |-> "update", paths |-> {}, path |-> ""]]
                    /\ UNCHANGED <<poll_threads, ret>>
               ELSE /\ poll_threads < MaxPollThreads
                    /\ poll_threads' = poll_threads + 1
                    /\ ret' = Returned("start", t)
                    /\ UNCHANGED <<observer, calls>>

\* add_indexed_file up to its call of _update_watches
add_indexed_file(t, filepath) ==
    /\ calls[t] = Idle
    /\ nconfig < limit.configs
    /\ nconfig' = nconfig + 1
    /\ watch_files' = watch_files \cup {filepath}
    /\ calls' = [calls EXCEPT ![t] =
                    [op |-> "add_indexed_file", pc |-> "update", paths |-> {}, path |-> ""]]
    /\ UNCHANGED <<fsVars, mapVars, pattern_strings, start_datetime, end_datetime, watch_dirs,
                   chk, events, track, ret, running, observer, watched_paths, poll_threads,
                   watchdog>>

\* what follows _update_watches in the call of thread t: observer.start() in
\* start(), the return in add_indexed_file
AfterUpdate(t) ==
    IF calls[t].op = "start"
    THEN /\ calls' = [calls EXCEPT ![t].pc = "observer.start", ![t].paths = {}, ![t].path = ""]
         /\ ret' = ret
    ELSE /\ calls' = [calls EXCEPT ![t] = Idle]
         /\ ret' = Returned(calls[t].op, t)

\* _update_watches: `if not self.observer: return`, then paths_to_watch
UpdateCollect(t) ==
    /\ calls[t].pc = "update"
    /\ UNCHANGED <<fsVars, mapVars, cfgVars, chk, events, track, nconfig>>
    /\ UNCHANGED <<running, observer, watched_paths, poll_threads, watchdog>>
    /\ IF observer = None
       THEN AfterUpdate(t)
       ELSE /\ calls' = [calls EXCEPT ![t].pc = "test", ![t].paths = PathsToWatch]
            /\ ret' = ret

\* _update_watches: the next path of the loop and `if path not in
\* self.watched_paths`; the end of the loop
UpdateTest(t) ==
    /\ calls[t].pc = "test"
    /\ UNCHANGED <<fsVars, mapVars, cfgVars, chk, events, track, nconfig>>
    /\ UNCHANGED <<running, observer, watched_paths, poll_threads, watchdog>>
    /\ IF calls[t].paths = {}
       THEN AfterUpdate(t)
       ELSE /\ ret' = ret
            /\ \E path \in calls[t].paths :
                    calls' = [calls EXCEPT
                                ![t].paths = @ \ {path},
                                ![t].path = IF path \in watched_paths THEN "" ELSE path,
                                ![t].pc = IF path \in watched_paths THEN "test" ELSE "schedule"]

\* _update_watches: self.observer.schedule(self.event_handler, path); with
\* self.observer None the AttributeError is swallowed
UpdateSchedule(t) ==
    /\ calls[t].pc = "schedule"
    /\ UNCHANGED <<fsVars, mapVars, cfgVars, chk, events, track, nconfig, ret>>
    /\ UNCHANGED <<running, watched_paths, poll_threads, watchdog>>
    /\ IF observer = None
       THEN /\ calls' = [calls EXCEPT ![t].pc = "test", ![t].path = ""]
            /\ observer' = observer
       ELSE /\ calls' = [calls EXCEPT ![t].pc = "add"]
            /\ observer' = [observer EXCEPT !.watches[calls[t].path] = @ + 1]

\* _update_watches: self.watched_paths.add(path)
UpdateAdd(t) ==
    /\ calls[t].pc = "add"
    /\ watched_paths' = watched_paths \cup {calls[t].path}
    /\ calls' = [calls EXCEPT ![t].pc = "test", ![t].path = ""]
    /\ UNCHANGED <<fsVars, mapVars, cfgVars, chk, events, track, nconfig, ret>>
    /\ UNCHANGED <<running, observer, poll_threads, watchdog>>

\* start(): self.observer.start(); with self.observer None the AttributeError
\* leaves start()
StartObserver(t) ==
    /\ calls[t].pc = "observer.start"
    /\ calls' = [calls EXCEPT ![t] = Idle]
    /\ observer' = IF observer = None THEN None ELSE [observer EXCEPT !.started = TRUE]
    /\ ret' = [Returned("start", t) EXCEPT !.raised = (observer = None)]
    /\ UNCHANGED <<fsVars, mapVars, cfgVars, chk, events, track, nconfig>>
    /\ UNCHANGED <<running, watched_paths, poll_threads, watchdog>>

update_watches(t) == UpdateCollect(t) \/ UpdateTest(t) \/ UpdateSchedule(t) \/ UpdateAdd(t)

\* stop()
stop(t) ==
    /\ calls[t] = Idle
    /\ running' = FALSE
    /\ observer' = None
    /\ watched_paths' = {}
    /\ ret' = Returned("stop", t)
    /\ UNCHANGED <<fsVars, mapVars, cfgVars, chk, events, track, nconfig>>
    /\ UNCHANGED <<poll_threads, calls, watchdog>>

\* _poll_loop: the thread leaves `while self.running`
PollExit ==
    /\ poll_threads > 0
    /\ ~running
    /\ poll_threads' = poll_threads - 1
    /\ UNCHANGED <<fsVars, mapVars, cfgVars, chk, events, track, nconfig, ret>>
    /\ UNCHANGED <<running, observer, watched_paths, calls, watchdog>>

\* The lifecycle and the registrations: the main thread starts and stops;
\* between the return of start() and the call of stop() the main thread and a
\* worker thread add indexed files
InitRegister ==
    InitAll([writes |-> 0, configs |-> MaxAddCalls, ops |-> MaxAddCalls, writers |-> {}],
            {<<>>}, TRUE, BOOLEAN)

NextRegister ==
    /\ \/ start("main")
       \/ AllIdle /\ stop("main")
       \/ /\ running /\ calls["main"].op # "start"
          /\ \E t \in Callers, filepath \in FilePool : add_indexed_file(t, filepath)
       \/ \E t \in Callers : update_watches(t)
       \/ StartObserver("main")
       \/ PollExit
    /\ UNCHANGED <<limit, ring_added, sound, scanVars, views>>

SpecRegister == InitRegister /\ [][NextRegister]_vars

\* ------------------------------------------------------------------------
\* The two change-notification sources: watchdog events and the polling loop
\* ------------------------------------------------------------------------

\* Path(filepath).exists() for the files of FilePool
FileExists(filepath) ==
    IF filepath \in Paths THEN fs[filepath].exists ELSE ParentOf(filepath) \in ExistingDirs

\* files_to_check of _check_all_files: the '*.log' children of the existing
\* watched directories plus the indexed files
PollFiles ==
    {f \in FilePool : /\ ParentOf(f) \in watch_dirs
                      /\ ParentOf(f) \in ExistingDirs
                      /\ FileExists(f)
                      /\ EndsWith(PathText(f), DotLog)}
    \cup watch_files

\* the started observer delivers the events of the direct children of the
\* scheduled directories (recursive=False); LogFileEventHandler.on_modified
\* passes the path to _check_file_immediate if _should_watch_file accepts it
EventAccepted(filepath) ==
    /\ observer # None
    /\ observer.started
    /\ observer.watches[ParentOf(filepath)] > 0
    /\ ShouldWatchFile(filepath)

CheckCalled(filepath, by) ==
    [op |-> "_check_file", arg |-> filepath, value |-> by, raised |-> FALSE]

\* LogFileEventHandler.on_modified for a modification of filepath
on_modified(filepath) ==
    /\ FileExists(filepath)
    /\ EventAccepted(filepath)
    /\ ret' = CheckCalled(filepath, "on_modified")
    /\ UNCHANGED <<fsVars, mapVars, cfgVars, chk, events, track, nconfig, lifeVars>>

\* LogFileEventHandler.on_created for the creation of filepath
on_created(filepath) ==
    /\ FileExists(filepath)
    /\ EndsWith(PathText(filepath), DotLog)
    /\ EventAccepted(filepath)
    /\ ret' = CheckCalled(filepath, "on_created")
    /\ UNCHANGED <<fsVars, mapVars, cfgVars, chk, events, track, nconfig, lifeVars>>

\* _poll_loop: one _check_file call of a round of _check_all_files
check_all_files(filepath) ==
    /\ poll_threads > 0
    /\ running
    /\ filepath \in PollFiles
    /\ ret' = CheckCalled(filepath, "_check_all_files")
    /\ UNCHANGED <<fsVars, mapVars, cfgVars, chk, events, track, nconfig, lifeVars>>

\* One thread starts, stops and reconfigures the watcher; the notification
\* source reports file changes
InitFallback ==
    InitAll([writes |-> 0, configs |-> MaxWatchConfigs, ops |-> MaxWatchConfigs,
             writers |-> {}],
            {<<>>}, TRUE, BOOLEAN)

NextFallback ==
    /\ \/ start("main")
       \/ stop("main")
       \/ StartObserver("main")
       \/ update_watches("main")
       \/ \E filepath \in FilePool : add_indexed_file("main", filepath)
       \/ /\ calls["main"] = Idle
          /\ \/ \E directories \in SUBSET ExistingDirs : set_directories(directories)
             \/ \E files \in {{}, {"/d2/y.txt"}, {"/e/b.log", "/gone/z.log"}} :
                    set_indexed_files(files)
          /\ UNCHANGED <<ret, lifeVars>>
       \/ \E filepath \in FilePool :
            on_modified(filepath) \/ on_created(filepath) \/ check_all_files(filepath)
       \/ PollExit
    /\ UNCHANGED <<limit, ring_added, sound, scanVars, views>>

SpecFallback == InitFallback /\ [][NextFallback]_vars

\* ------------------------------------------------------------------------
\* The accessors and mutators of the per-file maps, statement by statement;
\* none of them takes self.lock
\* ------------------------------------------------------------------------

\* get_file_state on the given maps
GetFileState(positions, counts) ==
    [filepath \in (DOMAIN positions) \cup (DOMAIN counts) |->
        [position |-> Get(positions, filepath, <<0, 0>>)[1],
         mtime |-> Get(positions, filepath, <<0, 0>>)[2],
         error_count |-> Get(counts, filepath, 0)]]

\* a wrong restore: the mtime is not stored
RestoreWithoutMtime(positions, counts, state) ==
    [file_positions |->
        [filepath \in (DOMAIN positions) \cup (DOMAIN state) |->
            IF filepath \in DOMAIN state THEN <<state[filepath].position, 0>>
            ELSE positions[filepath]],
     file_error_counts |->
        [filepath \in (DOMAIN counts) \cup (DOMAIN state) |->
            IF filepath \in DOMAIN state THEN state[filepath].error_count
            ELSE counts[filepath]]]

\* restore_file_state(state) on the given maps
RestoreFileState(positions, counts, state) ==
    [file_positions |->
        [filepath \in (DOMAIN positions) \cup (DOMAIN state) |->
            IF filepath \in DOMAIN state
            THEN <<state[filepath].position, state[filepath].mtime>>
            ELSE positions[filepath]],
     file_error_counts |->
        [filepath \in (DOMAIN counts) \cup (DOMAIN state) |->
            IF filepath \in DOMAIN state THEN state[filepath].error_count
            ELSE counts[filepath]]]

\* the saved states a caller restores
SavedStates ==
    {[p \in {"/d/app.log"} |-> [position |-> 5, mtime |-> 1, error_count |-> 2]],
     [p \in Paths |-> [position |-> 9, mtime |-> 2, error_count |-> 4]]}

\* a thread in a call of the accessor or mutator op
Frame(op, pc, paths, state) ==
    [op |-> op, pc |-> pc, paths |-> paths, path |-> "", state |-> state, pos |-> <<0, 0>>]

\* a test of mutual exclusion that the methods do not make: `with self.lock`
\* would let a call begin only when no other call is under way
LockFree(t) == TRUE

\* restore_file_state(state): the call and the first evaluation of
\* state.items()
BeginRestore(t, state) ==
    /\ calls[t] = Idle
    /\ LockFree(t)
    /\ nconfig < limit.configs
    /\ nconfig' = nconfig + 1
    /\ calls' = [calls EXCEPT ![t] = Frame("restore_file_state", "position", DOMAIN state, state)]
    /\ UNCHANGED <<mapVars, ret>>

\* self.file_positions[filepath] = (position, mtime)
RestorePosition(t) ==
    /\ calls[t].op = "restore_file_state" /\ calls[t].pc = "position"
    /\ \E filepath \in calls[t].paths :
        /\ file_positions' = Put(file_positions, filepath,
                                 <<calls[t].state[filepath].position,
                                   calls[t].state[filepath].mtime>>)
        /\ calls' = [calls EXCEPT ![t].pc = "count", ![t].path = filepath]
    /\ UNCHANGED <<file_error_counts, file_matched_lines, pattern_to_files, nconfig, ret>>

\* self.file_error_counts[filepath] = error_count, and the next item or
\* the return
RestoreCount(t) ==
    /\ calls[t].op = "restore_file_state" /\ calls[t].pc = "count"
    /\ file_error_counts' = Put(file_error_counts, calls[t].path,
                                calls[t].state[calls[t].path].error_count)
    /\ IF calls[t].paths = {calls[t].path}
       THEN /\ calls' = [calls EXCEPT ![t] = Idle]
            /\ ret' = Returned("restore_file_state", t)
       ELSE /\ calls' = [calls EXCEPT ![t].pc = "position", ![t].paths = @ \ {calls[t].path},
                                      ![t].path = ""]
            /\ ret' = ret
    /\ UNCHANGED <<file_positions, file_matched_lines, pattern_to_files, nconfig>>

\* reset_counts: the call and self.file_error_counts.clear()
BeginResetCounts(t) ==
    /\ calls[t] = Idle
    /\ LockFree(t)
    /\ nconfig < limit.configs
    /\ nconfig' = nconfig + 1
    /\ file_error_counts' = EmptyDict
    /\ calls' = [calls EXCEPT ![t] = Frame("reset_counts", "lines", {}, EmptyDict)]
    /\ UNCHANGED <<file_positions, file_matched_lines, pattern_to_files, ret>>

\* reset_counts: self.file_matched_lines.clear() and
\* self.pattern_to_files.clear()
ResetCountsRest(t) ==
    /\ calls[t].op = "reset_counts"
    /\ file_matched_lines' = EmptyDict
    /\ pattern_to_files' = EmptyDict
    /\ calls' = [calls EXCEPT ![t] = Idle]
    /\ ret' = Returned("reset_counts", t)
    /\ UNCHANGED <<file_positions, file_error_counts, nconfig>>

\* reset_file_count(filepath): the call and the reset of the count
BeginResetFileCount(t, filepath) ==
    /\ calls[t] = Idle
    /\ LockFree(t)
    /\ nconfig < limit.configs
    /\ nconfig' = nconfig + 1
    /\ file_error_counts' =
            IF filepath \in DOMAIN file_error_counts THEN Put(file_error_counts, filepath, 0)
            ELSE file_error_counts
    /\ calls' = [calls EXCEPT ![t] = [Frame("reset_file_count", "lines", {}, EmptyDict)
                                        EXCEPT !.path = filepath]]
    /\ UNCHANGED <<file_positions, file_matched_lines, pattern_to_files, ret>>

\* reset_file_count: the buffer is cleared and the path leaves the pattern
\* mappings
ResetFileCountRest(t) ==
    /\ calls[t].op = "reset_file_count"
    /\ file_matched_lines' = ClearMatchedLines(file_matched_lines, calls[t].path)
    /\ pattern_to_files' = DiscardFromPatterns(pattern_to_files, calls[t].path)
    /\ calls' = [calls EXCEPT ![t] = Idle]
    /\ ret' = Returned("reset_file_count", t)
    /\ UNCHANGED <<file_positions, file_error_counts, nconfig>>

\* get_file_state: the call and the set of keys of the two maps
BeginGetFileState(t) ==
    /\ calls[t] = Idle
    /\ LockFree(t)
    /\ IF DOMAIN file_positions = {} /\ DOMAIN file_error_counts = {}
       THEN /\ calls' = calls
            /\ ret' = [op |-> "get_file_state", arg |-> t, value |-> EmptyDict, raised |-> FALSE]
       ELSE /\ calls' = [calls EXCEPT ![t] =
                            Frame("get_file_state", "position",
                                  (DOMAIN file_positions) \cup (DOMAIN file_error_counts),
                                  EmptyDict)]
            /\ ret' = ret
    /\ UNCHANGED <<mapVars, nconfig>>

\* pos, mtime = self.file_positions.get(filepath, (0, 0))
GetPosition(t) ==
    /\ calls[t].op = "get_file_state" /\ calls[t].pc = "position"
    /\ \E filepath \in calls[t].paths :
        calls' = [calls EXCEPT ![t].pc = "count", ![t].path = filepath,
                               ![t].pos = Get(file_positions, filepath, <<0, 0>>)]
    /\ UNCHANGED <<mapVars, nconfig, ret>>

\* state[filepath] = {...,"error_count": self.file_error_counts.get(filepath, 0)},
\* and the next key or the return
GetCount(t) ==
    /\ calls[t].op = "get_file_state" /\ calls[t].pc = "count"
    /\ LET state == Put(calls[t].state, calls[t].path,
                        [position |-> calls[t].pos[1], mtime |-> calls[t].pos[2],
                         error_count |-> Get(file_error_counts, calls[t].path, 0)])
       IN  IF calls[t].paths = {calls[t].path}
           THEN /\ calls' = [calls EXCEPT ![t] = Idle]
                /\ ret' = [op |-> "get_file_state", arg |-> t, value |-> state,
                           raised |-> FALSE]
           ELSE /\ calls' = [calls EXCEPT ![t].pc = "position", ![t].state = state,
                                          ![t].paths = @ \ {calls[t].path}, ![t].path = ""]
                /\ ret' = ret
    /\ UNCHANGED <<mapVars, nconfig>>

\* sum(d.values())
RECURSIVE SumOver(_, _)
SumOver(d, keys) ==
    IF keys = {} THEN 0
    ELSE LET k == CHOOSE x \in keys : TRUE IN d[k] + SumOver(d, keys \ {k})

\* get_error_count, get_total_error_count, get_matched_lines: one read each
ReadCall(t) ==
    /\ calls[t] = Idle
    /\ LockFree(t)
    /\ \/ \E filepath \in Paths :
            ret' = [op |-> "get_error_count", arg |-> filepath,
                    value |-> Get(file_error_counts, filepath, 0), raised |-> FALSE]
       \/ ret' = [op |-> "get_total_error_count", arg |-> t,
                  value |-> SumOver(file_error_counts, DOMAIN file_error_counts),
                  raised |-> FALSE]
       \/ \E filepath \in Paths :
            ret' = [op |-> "get_matched_lines", arg |-> filepath,
                    value |-> Get(file_matched_lines, filepath, <<>>), raised |-> FALSE]
    /\ UNCHANGED <<mapVars, nconfig, calls>>

\* the state of this watcher is saved with get_file_state and restored into
\* a newly constructed watcher (tests/test_multi_log_watcher.py,
\* test_get_and_restore_file_state); ret.value holds the maps of the new one
restore_into_fresh(t) ==
    /\ calls[t] = Idle
    /\ ret' = [op |-> "restore_into_fresh",
               arg |-> [file_positions |-> file_positions,
                        file_error_counts |-> file_error_counts],
               value |-> RestoreFileState(EmptyDict, EmptyDict,
                                          GetFileState(file_positions, file_error_counts)),
               raised |-> FALSE]
    /\ UNCHANGED <<mapVars, nconfig, calls>>

\* a mutator has made some of its writes to file_positions and
\* file_error_counts and not yet all of them (reset_counts and
\* reset_file_count make one write to the two maps)
MutatorUnderWay ==
    \E t \in Callers :
        /\ calls[t].op = "restore_file_state"
        /\ (calls[t].pc = "count" \/ calls[t].paths # DOMAIN calls[t].state)

\* the main thread restores and resets, a worker thread reads
InitAccess ==
    InitWith([writes |-> 0, configs |-> MaxMutatorCalls, ops |-> MaxMutatorCalls,
              writers |-> {}],
             {<<>>}, TRUE)

NextAccess ==
    /\ \/ \E state \in SavedStates : BeginRestore("main", state)
       \/ RestorePosition("main")
       \/ RestoreCount("main")
       \/ BeginResetCounts("main")
       \/ ResetCountsRest("main")
       \/ \E filepath \in Paths : BeginResetFileCount("main", filepath)
       \/ ResetFileCountRest("main")
       \/ BeginGetFileState("worker")
       \/ GetPosition("worker")
       \/ GetCount("worker")
       \/ ReadCall("worker")
       \/ restore_into_fresh("worker")
    /\ views' =
            LET began == /\ calls["worker"] = Idle
                         /\ \/ calls'["worker"].op = "get_file_state"
                            \/ (ret'.op = "get_file_state" /\ ret' # ret)
                now == IF MutatorUnderWay' THEN {}
                       ELSE {GetFileState(file_positions', file_error_counts')}
            IN  IF began THEN now
                ELSE IF calls["worker"].op = "get_file_state" THEN views \cup now
                ELSE views
    /\ UNCHANGED <<fsVars, cfgVars, chk, events, track, limit, ring_added, sound, scanVars,
                   running, observer, watched_paths, poll_threads, watchdog>>

SpecAccess == InitAccess /\ [][NextAccess]_vars

\* ------------------------------------------------------------------------
\* The menu bar application's use of its watcher (src/logwatch-menubar.py):
\* the main thread starts the watcher and, from the menu, a reindex; each
\* reindex runs in a thread of its own ("worker"), the checks on the
\* watcher's notification thread
\* ------------------------------------------------------------------------

\* self.index["files"] as loaded at launch
AppIndexes == SavedStates \cup {EmptyDict}

\* "if not self.watcher or self.reindexing: return" of _rescan_with_sound;
\* reindexing is True from the request of a reindex to the end of its thread
Reindexing == calls["worker"] # Idle

\* _start_watcher(reindex=True) at launch: a new watcher is configured, the
\* saved state is restored, the thread of reindex_from_positions is started
\* if the index holds a file, and then watcher.start() is called
app_start_watcher(index) ==
    /\ ~running
    /\ ~Reindexing
    /\ nconfig < limit.configs
    /\ nconfig' = nconfig + 1
    /\ file_positions' = RestoreFileState(EmptyDict, EmptyDict, index).file_positions
    /\ file_error_counts' = RestoreFileState(EmptyDict, EmptyDict, index).file_error_counts
    /\ file_matched_lines' = EmptyDict
    /\ pattern_to_files' = EmptyDict
    /\ watch_files' = DOMAIN index
    /\ track' = TrackReset(Paths, "restore_file_state")
    /\ calls' = IF DOMAIN index # {}
                THEN [calls EXCEPT !["worker"] =
                        Frame("reindex_from_positions", "begin", {}, EmptyDict)]
                ELSE calls
    /\ running' = TRUE
    /\ UNCHANGED <<fsVars, pattern_strings, start_datetime, end_datetime, watch_dirs,
                   chk, events, ret>>

\* _reindex_with_new_patterns, _reindex_with_new_filter and
\* _rescan_with_sound: the thread of reindex_all_files is started.  Only
\* _rescan_with_sound tests self.reindexing; the model starts no second
\* reindex thread while one is under way.
app_reindex_with_new_patterns(patterns) ==
    /\ running
    /\ ~Reindexing
    /\ nconfig < limit.configs
    /\ nconfig' = nconfig + 1
    /\ calls' = [calls EXCEPT !["worker"] =
                    Frame("reindex_all_files", "begin", {}, patterns)]
    /\ UNCHANGED <<fsVars, mapVars, cfgVars, chk, events, track, ret, running>>

\* the thread's first statements: set_error_patterns(patterns) for a reindex
\* after a change of patterns, then files_to_check is collected under the
\* lock and, in reindex_all_files, the counts and the cursors are cleared
ReindexBegin(t) ==
    /\ calls[t].op \in {"reindex_from_positions", "reindex_all_files"}
    /\ calls[t].pc = "begin"
    /\ calls' = [calls EXCEPT ![t].pc = "files", ![t].paths = FilesToCheck]
    /\ IF calls[t].op = "reindex_all_files"
       THEN /\ pattern_strings' = calls[t].state
            /\ file_error_counts' = EmptyDict
            /\ file_positions' = EmptyDict
            /\ track' = TrackReset(Paths, "reindex_all_files")
       ELSE UNCHANGED <<pattern_strings, file_error_counts, file_positions, track>>
    /\ UNCHANGED <<fsVars, file_matched_lines, pattern_to_files, start_datetime,
                   end_datetime, watch_dirs, watch_files, chk, events, nconfig, ret,
                   running>>

\* one round of "for idx, filepath in enumerate(files_to_check)":
\* _count_errors_in_file or _index_file_from_position on one file
ReindexFile(t) ==
    /\ calls[t].op \in {"reindex_from_positions", "reindex_all_files"}
    /\ calls[t].pc = "files"
    /\ \E filepath \in calls[t].paths :
        /\ calls' = [calls EXCEPT ![t].paths = @ \ {filepath}]
        /\ track' = TrackReset({filepath}, calls[t].op)
        /\ LET st == [positions |-> file_positions, counts |-> file_error_counts,
                      lines |-> file_matched_lines, ptf |-> pattern_to_files,
                      events |-> events]
           IN  StoreMaps(IF calls[t].op = "reindex_all_files"
                         THEN CountErrorsInFile(st, filepath)
                         ELSE IndexFileFromPosition(st, filepath))
    /\ UNCHANGED <<fsVars, cfgVars, chk, nconfig, ret, running>>

\* the loop is over: the reindex returns and its thread ends
ReindexEnd(t) ==
    /\ calls[t].op \in {"reindex_from_positions", "reindex_all_files"}
    /\ calls[t].pc = "files"
    /\ calls[t].paths = {}
    /\ calls' = [calls EXCEPT ![t] = Idle]
    /\ ret' = [op |-> calls[t].op, arg |-> t, value |-> "returned", raised |-> FALSE]
    /\ UNCHANGED <<fsVars, mapVars, cfgVars, chk, events, track, nconfig, running>>

\* _check_file on the notification thread of the started watcher
live_check == running /\ Check

InitApp ==
    InitWith([writes |-> MaxAppWrites, configs |-> MaxAppCalls,
              ops |-> MaxAppWrites + MaxAppCalls, writers |-> {"/d/app.log"}],
             {ChunkInfo \o ChunkErrFailed}, TRUE)

NextApp ==
    /\ \/ (Writers \/ live_check) /\ UNCHANGED <<ret, running, calls>>
       \/ \E index \in AppIndexes : app_start_watcher(index)
       \/ \E patterns \in PatternLists : app_reindex_with_new_patterns(patterns)
       \/ ReindexBegin("worker")
       \/ ReindexFile("worker")
       \/ ReindexEnd("worker")
    /\ UNCHANGED <<limit, ring_added, sound, scanVars, observer, watched_paths, poll_threads,
                   watchdog, views>>

SpecApp == InitApp /\ [][NextApp]_vars

\* "if self.sound_reset_time is None or now > self.sound_reset_time"
BurstOver(reset_time, now) == reset_time = NoResetTime \/ now > reset_time

\* _on_error_detected for a match event that arrives `gap` seconds after the
\* one before: the sound part of the handler
on_error_detected(gap) ==
    /\ Len(events) < MaxSoundEvents
    /\ sound.now + gap <= MaxSoundTime
    /\ events' = Append(events, [path |-> "/d/app.log", line_num |-> Len(events) + 1,
                                 text |-> RingText, matched_patterns |-> <<>>,
                                 offset |-> 0])
    /\ LET now == sound.now + gap
           count == IF BurstOver(sound.reset_time, now) THEN 0 ELSE sound.count
       IN  sound' =
             IF ~sound.enabled THEN [sound EXCEPT !.now = now]
             ELSE IF count < max_sounds_per_burst
             THEN [sound EXCEPT
                     !.now = now,
                     !.count = count + 1,
                     !.reset_time = IF count + 1 = 1 THEN now + BurstSeconds ELSE @,
                     !.played = Append(@, now)]
             ELSE [sound EXCEPT !.now = now, !.count = count]

\* _toggle_sound
toggle_sound ==
    /\ sound' = [sound EXCEPT !.enabled = ~@]
    /\ UNCHANGED events

InitSound == InitWith([writes |-> 0, configs |-> 0, ops |-> 0, writers |-> {}], {<<>>}, FALSE)

NextSound ==
    /\ \/ \E gap \in 0..MaxSoundTime : on_error_detected(gap)
       \/ toggle_sound
    /\ UNCHANGED <<fsVars, mapVars, cfgVars, chk, track, nconfig, ret, limit, ring_added,
                   scanVars, lifeVars>>

SpecSound == InitSound /\ [][NextSound]_vars

\* parse_log_timestamp on lines that hold up to MaxStamps timestamps after a
\* prefix: dated in each format, out of range in the date or in the time,
\* or not dated (tests/test_timestamp_parsing.py)
StampPool ==
    {<<"2", "0", "2", "4", "-", "0", "1", "-", "1", "5", " ", "1", "2", ":", "3", "0", ":", "4", "5">>,
     <<"2", "0", "2", "4", "/", "0", "1", "/", "1", "5", "T", "0", "8", ":", "0", "0", ":", "5", "9">>,
     <<"2", "0", "2", "4", "-", "0", "2", "-", "3", "0", " ", "1", "2", ":", "3", "0", ":", "4", "5">>,
     <<"2", "0", "2", "4", "-", "0", "1", "-", "1", "5", " ", "2", "5", ":", "0", "0", ":", "0", "0">>,
     <<"2", "0", "2", "3", "-", "1", "2", "-", "3", "1">>,
     <<"0", "1", "-", "1", "5", "-", "2", "0", "2", "4", " ", "1", "2", ":", "3", "0", ":", "4", "5">>,
     <<"9", "9", "-", "9", "9", "-", "9", "9", "9", "9", " ", "9", "9", ":", "9", "9", ":", "9", "9">>,
     <<"0", "0", "0", "0", "-", "0", "1", "-", "0", "1", " ", "0", "0", ":", "0", "0", ":", "0", "0">>,
     <<"n", "o", " ", "s", "t", "a", "m", "p">>}

StampPrefixes == {<<>>, <<"a", "t", " ">>, <<"[">>}

RECURSIVE StampsOfLength(_)
StampsOfLength(n) ==
    IF n = 0 THEN {<<>>}
    ELSE {text \o <<" ">> \o stamp : text \in StampsOfLength(n - 1), stamp \in StampPool}

StampLines ==
    {prefix \o text : prefix \in StampPrefixes,
                      text \in UNION {StampsOfLength(n) : n \in 0..MaxStamps}}

\* a call of parse_log_timestamp(line)
parse_log_timestamp_call(line) ==
    /\ ret' = [op |-> "parse_log_timestamp", arg |-> line,
               value |-> parse_log_timestamp(line), raised |-> FALSE]
    /\ UNCHANGED <<fsVars, mapVars, cfgVars, chk, events, track, nconfig>>

NextParse ==
    /\ ret = NoRet
    /\ \E line \in StampLines : parse_log_timestamp_call(line)
    /\ UNCHANGED <<limit, ring_added, sound, scanVars, lifeVars>>

SpecParse ==
    InitWith([writes |-> 0, configs |-> 0, ops |-> 0, writers |-> {}], {<<>>}, FALSE)
    /\ [][NextParse]_vars

\* ------------------------------------------------------------------------
\* LogScanner: start_scan, stop and the scan thread
\* ------------------------------------------------------------------------

\* the paths handed to start_scan: a directory tree and a path that does not
\* exist (tests/test_log_scanner.py, test_handles_nonexistent_path)
ScanRoots == {"/logs", "/nonexistent"}

\* the directories of the trees that are scanned
ScanDirs ==
    {"/logs", "/logs/sub", "/proj", "/proj/node_modules", "/proj/.cache", "/proj/locked",
     "/proj/venv", "/proj/srv", "/proj/srv/__pycache__", "/proj/srv/.git", "/deep",
     "/deep/d1", "/deep/d1/d2", "/deep/d1/d2/d3", "/deep/d1/d2/d3/d4"}

\* every path of the trees, and the path that does not exist
ScanPaths ==
    {"/logs", "/logs/a.log", "/logs/sub", "/logs/notes.md", "/logs/sub/c.log", "/proj",
     "/proj/node_modules", "/proj/app.log", "/proj/.cache", "/proj/locked",
     "/proj/broken", "/proj/mylog.txt", "/proj/venv", "/proj/catalog.txt", "/proj/srv",
     "/proj/node_modules/n.log", "/proj/.cache/h.log", "/proj/locked/l.log",
     "/proj/venv/v.log", "/proj/srv/.git", "/proj/srv/__pycache__", "/proj/srv/srv.logs",
     "/proj/srv/__pycache__/p.log", "/proj/srv/.git/g.log", "/deep", "/deep/d1",
     "/deep/d1/d2", "/deep/d1/d2/d3", "/deep/d1/d2/d3/d4", "/deep/d1/d2/d3/d4/deep.log",
     "/nonexistent"}

\* whether `directory` is a directory that exists
ScanDirExists(directory) == directory \in ScanDirs

\* directories whose os.scandir raises PermissionError
Unreadable == {"/proj/locked"}

\* entries whose entry.is_dir() raises OSError
Uninspectable == {"/proj/broken"}

\* os.scandir(directory) raises: the directory is missing or may not be read
ScandirRaises(directory) == ~ScanDirExists(directory) \/ directory \in Unreadable

\* a wrong listing: a directory that lists itself
ListsItself(directory) ==
    IF directory = "/proj" THEN <<"/proj/app.log", "/proj">> ELSE <<>>

\* the entries os.scandir(directory) yields
DirEntries(directory) ==
    CASE directory = "/logs" ->
            <<"/logs/a.log", "/logs/sub", "/logs/notes.md">>
      [] directory = "/logs/sub" ->
            <<"/logs/sub/c.log">>
      [] directory = "/proj" ->
            <<"/proj/node_modules", "/proj/app.log", "/proj/.cache", "/proj/locked",
              "/proj/broken", "/proj/mylog.txt", "/proj/venv", "/proj/catalog.txt",
              "/proj/srv">>
      [] directory = "/proj/node_modules" ->
            <<"/proj/node_modules/n.log">>
      [] directory = "/proj/.cache" ->
            <<"/proj/.cache/h.log">>
      [] directory = "/proj/locked" ->
            <<"/proj/locked/l.log">>
      [] directory = "/proj/venv" ->
            <<"/proj/venv/v.log">>
      [] directory = "/proj/srv" ->
            <<"/proj/srv/.git", "/proj/srv/__pycache__", "/proj/srv/srv.logs">>
      [] directory = "/proj/srv/__pycache__" ->
            <<"/proj/srv/__pycache__/p.log">>
      [] directory = "/proj/srv/.git" ->
            <<"/proj/srv/.git/g.log">>
      [] directory = "/deep" ->
            <<"/deep/d1">>
      [] directory = "/deep/d1" ->
            <<"/deep/d1/d2">>
      [] directory = "/deep/d1/d2" ->
            <<"/deep/d1/d2/d3">>
      [] directory = "/deep/d1/d2/d3" ->
            <<"/deep/d1/d2/d3/d4">>
      [] directory = "/deep/d1/d2/d3/d4" ->
            <<"/deep/d1/d2/d3/d4/deep.log">>
      [] OTHER -> <<>>

\* entry.is_dir(follow_symlinks=False)
EntryIsDir(entry) == ScanDirExists(entry)

\* whether a path is an entry of a directory, and that directory
HasParent(entry) ==
    \E d \in ScanDirs : \E k \in DOMAIN DirEntries(d) : DirEntries(d)[k] = entry

EntryParent(entry) ==
    CHOOSE d \in ScanDirs : \E k \in DOMAIN DirEntries(d) : DirEntries(d)[k] = entry

\* entry.name, Path(filepath).name
EntryName(entry) ==
    CASE entry = "/logs" -> <<"l", "o", "g", "s">>
      [] entry = "/logs/a.log" -> <<"a", ".", "l", "o", "g">>
      [] entry = "/logs/sub" -> <<"s", "u", "b">>
      [] entry = "/logs/notes.md" -> <<"n", "o", "t", "e", "s", ".", "m", "d">>
      [] entry = "/logs/sub/c.log" -> <<"c", ".", "l", "o", "g">>
      [] entry = "/proj" -> <<"p", "r", "o", "j">>
      [] entry = "/proj/node_modules" -> <<"n", "o", "d", "e", "_", "m", "o", "d", "u", "l", "e", "s">>
      [] entry = "/proj/app.log" -> <<"a", "p", "p", ".", "l", "o", "g">>
      [] entry = "/proj/.cache" -> <<".", "c", "a", "c", "h", "e">>
      [] entry = "/proj/locked" -> <<"l", "o", "c", "k", "e", "d">>
      [] entry = "/proj/broken" -> <<"b", "r", "o", "k", "e", "n">>
      [] entry = "/proj/mylog.txt" -> <<"m", "y", "l", "o", "g", ".", "t", "x", "t">>
      [] entry = "/proj/venv" -> <<"v", "e", "n", "v">>
      [] entry = "/proj/catalog.txt" -> <<"c", "a", "t", "a", "l", "o", "g", ".", "t", "x", "t">>
      [] entry = "/proj/srv" -> <<"s", "r", "v">>
      [] entry = "/proj/node_modules/n.log" -> <<"n", ".", "l", "o", "g">>
      [] entry = "/proj/.cache/h.log" -> <<"h", ".", "l", "o", "g">>
      [] entry = "/proj/locked/l.log" -> <<"l", ".", "l", "o", "g">>
      [] entry = "/proj/venv/v.log" -> <<"v", ".", "l", "o", "g">>
      [] entry = "/proj/srv/.git" -> <<".", "g", "i", "t">>
      [] entry = "/proj/srv/__pycache__" -> <<"_", "_", "p", "y", "c", "a", "c", "h", "e", "_", "_">>
      [] entry = "/proj/srv/srv.logs" -> <<"s", "r", "v", ".", "l", "o", "g", "s">>
      [] entry = "/proj/srv/__pycache__/p.log" -> <<"p", ".", "l", "o", "g">>
      [] entry = "/proj/srv/.git/g.log" -> <<"g", ".", "l", "o", "g">>
      [] entry = "/deep" -> <<"d", "e", "e", "p">>
      [] entry = "/deep/d1" -> <<"d", "1">>
      [] entry = "/deep/d1/d2" -> <<"d", "2">>
      [] entry = "/deep/d1/d2/d3" -> <<"d", "3">>
      [] entry = "/deep/d1/d2/d3/d4" -> <<"d", "4">>
      [] entry = "/deep/d1/d2/d3/d4/deep.log" -> <<"d", "e", "e", "p", ".", "l", "o", "g">>
      [] OTHER -> <<>>

\* `entry.name.startswith(".")` and
\* `entry.name in ("node_modules", "__pycache__", "venv", ".git")`
SkippedNames ==
    {<<"n", "o", "d", "e", "_", "m", "o", "d", "u", "l", "e", "s">>,
     <<"_", "_", "p", "y", "c", "a", "c", "h", "e", "_", "_">>,
     <<"v", "e", "n", "v">>,
     <<".", "g", "i", "t">>}

SkipsNothing(name) == FALSE

SkippedDir(name) == StartsWith(name, <<".">>) \/ name \in SkippedNames

\* Path(filepath).suffix: the name from its last dot on, empty when the
\* name has no dot, starts with its only dot or ends with a dot
Suffix(name) ==
    LET dots == {i \in DOMAIN name : name[i] = "."}
    IN  IF dots = {} THEN <<>>
        ELSE LET i == CHOOSE k \in dots : \A j \in dots : j <= k
             IN  IF 1 < i /\ i < Len(name) THEN SubSeq(name, i, Len(name)) ELSE <<>>

\* the class \w (ASCII)
WordChars ==
    {Uppercase[i] : i \in DOMAIN Uppercase} \cup {Lowercase[i] : i \in DOMAIN Lowercase}
    \cup DigitSet \cup {"_"}

\* ^\w{3}\s+\d{1,2}\s+\d{2}:\d{2}
SyslogDateAt(s) ==
    /\ \A i \in 1..3 : CharAt(s, i, WordChars)
    /\ SpaceRun(s, 4) >= 1
    /\ \E n \in 1..2 :
        LET day == 4 + SpaceRun(s, 4)
            time == day + n + SpaceRun(s, day + n)
        IN  /\ DigitsAt(s, day, n)
            /\ SpaceRun(s, day + n) >= 1
            /\ DigitsAt(s, time, 2) /\ CharAt(s, time + 2, {":"}) /\ DigitsAt(s, time + 3, 2)

\* LOG_LINE_PATTERN.match(line), the pattern being DEFAULT_LOG_LINE_PATTERN
LogLineMatch(line) ==
    \/ IsoDateAt(line, 1)
    \/ /\ DigitsAt(line, 1, 2) /\ CharAt(line, 3, {"-", "/"})
       /\ DigitsAt(line, 4, 2) /\ CharAt(line, 6, {"-", "/"})
       /\ DigitsAt(line, 7, 4)
    \/ CharAt(line, 1, {"["}) /\ IsoDateAt(line, 2)
    \/ TimeAt(line, 1)
    \/ SyslogDateAt(line)

\* the loop of _has_log_format from line i on
RECURSIVE LogFormatFrom(_, _, _, _)
LogFormatFrom(lines, i, lines_checked, matches) ==
    IF i > Len(lines) \/ lines_checked >= 5 THEN matches >= 2
    ELSE LET line == Strip(lines[i])
         IN  IF line = <<>> THEN LogFormatFrom(lines, i + 1, lines_checked, matches)
             ELSE LogFormatFrom(lines, i + 1, lines_checked + 1,
                                IF LogLineMatch(line) THEN matches + 1 ELSE matches)

\* a wrong _has_log_format: one matching line is enough
AnyLineMatches(readable, content) ==
    readable /\ \E i \in DOMAIN FileLines(content) : LogLineMatch(Strip(FileLines(content)[i]))

\* _has_log_format of a file with this content; open() raises when the
\* file may not be read
has_log_format(readable, content) ==
    IF readable THEN LogFormatFrom(FileLines(content), 1, 0, 0) ELSE FALSE

\* _is_log_file of a file with this name and content
is_log_file(name, readable, content) ==
    IF Suffix(LowerStr(name)) \in {DotLog, <<".", "l", "o", "g", "s">>} THEN TRUE
    ELSE IF \/ ContainsIgnoreCase(name, <<"l", "o", "g">>)
            \/ ContainsIgnoreCase(name, <<"t", "x", "t">>)
         THEN has_log_format(readable, content)
         ELSE FALSE

TimedLine == <<"1", "2", ":", "3", "0", ":", "4", "5", "\n">>

PlainLine == <<"u", "p", "\n">>

\* the content of the files of the trees
EntryText(entry) ==
    CASE entry = "/proj/mylog.txt" -> PlainLine \o TimedLine \o TimedLine
      [] entry = "/proj/catalog.txt" -> TimedLine \o PlainLine
      [] OTHER -> <<>>

\* the paths of the trees for which _is_log_file returns True
LogFiles == {path \in ScanPaths : is_log_file(EntryName(path), TRUE, EntryText(path))}

\* _is_log_file(entry.path)
IsLogFile(entry) == entry \in LogFiles

\* _is_log_file on files with `log` in the name and no .log suffix, readable or not, holding up to MaxFileLines lines: timed,
\* indented, plain, empty and blank ones (tests/test_log_detection.py, TestHasLogFormat)
EmptyLine == <<"\n">>

BlankLine == <<" ", "\n">>

IndentedLine == <<" ", "1", "2", ":", "3", "0", ":", "4", "5", "\n">>

ClassifyLines == {TimedLine, PlainLine, EmptyLine, BlankLine, IndentedLine}

RECURSIVE TextsOfLength(_)
TextsOfLength(n) ==
    IF n = 0 THEN {<<>>}
    ELSE {text \o line : text \in TextsOfLength(n - 1), line \in ClassifyLines}

ClassifyTexts == UNION {TextsOfLength(n) : n \in 0..MaxFileLines}

ClassifyNames == {<<"m", "y", "l", "o", "g", ".", "t", "x", "t">>, <<"S", "y", "s", "L", "o", "g">>, <<".", "l", "o", "g">>}

\* a call of _is_log_file(filepath)
is_log_file_call(name, readable, content) ==
    /\ ret' = [op |-> "is_log_file",
               arg |-> [name |-> name, readable |-> readable, content |-> content],
               value |-> is_log_file(name, readable, content), raised |-> FALSE]
    /\ UNCHANGED <<fsVars, mapVars, cfgVars, chk, events, track, nconfig>>

NextClassify ==
    /\ ret = NoRet
    /\ \E name \in ClassifyNames, readable \in BOOLEAN, content \in ClassifyTexts :
            is_log_file_call(name, readable, content)
    /\ UNCHANGED <<limit, ring_added, sound, scanVars, lifeVars>>

SpecClassify ==
    InitWith([writes |-> 0, configs |-> 0, ops |-> 0, writers |-> {}], {<<>>}, FALSE)
    /\ [][NextClassify]_vars

\* _count_directories(directory, depth) while running stays True: the
\* directory itself and, down to depth 3, the directories below it that are
\* not skipped; errors of os.scandir and entry.is_dir count nothing
RECURSIVE CountFrom(_, _)
RECURSIVE CountEntries(_, _, _)
CountEntries(entries, k, depth) ==
    IF k > Len(entries) THEN 0
    ELSE (IF /\ entries[k] \notin Uninspectable
             /\ EntryIsDir(entries[k])
             /\ ~SkippedDir(EntryName(entries[k]))
          THEN CountFrom(entries[k], depth + 1)
          ELSE 0) + CountEntries(entries, k + 1, depth)

CountFrom(directory, depth) ==
    IF depth > 3 THEN 0
    ELSE 1 + (IF ScandirRaises(directory) THEN 0
              ELSE CountEntries(DirEntries(directory), 1, depth))

\* _count_directories(self.scan_path): 0 once running is False
CountDirectories(directory) ==
    IF ~scanner.running THEN 0 ELSE CountFrom(directory, 0)

\* a wrong progress value: the fraction without its cap
ProgressUncapped(scanned, total) == <<scanned, total>>

\* min(self.scanned_dirs / self.total_dirs, 0.99), as <<numerator, denominator>>
Progress(scanned, total) ==
    IF scanned * 100 >= 99 * total THEN <<99, 100>> ELSE <<scanned, total>>

\* the thread of scan number `scan` invokes a callback while it handles the
\* directory `at`.  (A stop() that clears the flag leaves a mark of its own
\* kind, without these fields, in the same sequence.)
Notify(scan, kind, arg, raised, at) ==
    [notified EXCEPT ![scan] = Append(@, [kind |-> kind, arg |-> arg, raised |-> raised,
                                         at |-> at])]

\* `if self.running: return` of start_scan
ScanRunning(is_running) == is_running

\* start_scan(start_path)
start_scan(start_path) ==
    /\ IF ScanRunning(scanner.running)
       THEN /\ ret' = [op |-> "start_scan", arg |-> start_path, value |-> "running",
                       raised |-> FALSE]
            /\ UNCHANGED scanVars
       ELSE /\ Len(scan_threads) < MaxScans
            /\ scanner' = [running |-> TRUE, thread |-> Len(scan_threads) + 1,
                           scan_path |-> start_path, found_count |-> 0,
                           total_dirs |-> 0, scanned_dirs |-> 0]
            /\ scan_threads' = Append(scan_threads, [pc |-> "count", dir |-> None, stack |-> <<>>])
            /\ ret' = [op |-> "start_scan", arg |-> start_path, value |-> "returned",
                       raised |-> FALSE]
            /\ notified' = Append(notified, <<>>)

\* LogScanner.stop(): the join returns when the thread has ended or after
\* 2 seconds, whichever comes first
scanner_stop ==
    /\ scanner' = [scanner EXCEPT !.running = FALSE]
    /\ ret' = [op |-> "scanner_stop", arg |-> scanner.thread, value |-> "returned",
               raised |-> FALSE]
    /\ notified' = IF scanner.running
                   THEN [notified EXCEPT ![scanner.thread] = Append(@, [kind |-> "stop"])]
                   ELSE notified
    /\ UNCHANGED scan_threads

\* _scan_loop: self.total_dirs = self._count_directories(self.scan_path)
ScanCount(i) ==
    /\ scan_threads[i].pc = "count"
    /\ scanner' = [scanner EXCEPT !.total_dirs = CountDirectories(scanner.scan_path)]
    /\ scan_threads' = [scan_threads EXCEPT ![i].pc = "progress"]
    /\ UNCHANGED <<notified, ret>>

\* _scan_loop: self.callback_progress(0.0), which returns or raises, and the
\* call self._scan_directory(self.scan_path)
ScanFirstProgress(i) ==
    /\ scan_threads[i].pc = "progress"
    /\ \E raised \in BOOLEAN :
        /\ notified' = Notify(i, "progress", <<0, 1>>, raised, None)
        /\ scan_threads' = [scan_threads EXCEPT
                              ![i].pc = IF raised THEN "finally" ELSE "enter",
                              ![i].dir = IF raised THEN None ELSE scanner.scan_path]
    /\ UNCHANGED <<scanner, ret>>

\* a wrong return: whatever ends a _scan_directory call ends the scan
ScanAborts(stack) == "finally"

\* where a _scan_directory call that ends goes back to: the loop of the
\* calling _scan_directory, or _scan_loop
ScanReturn(stack) == IF stack = <<>> THEN "finally" ELSE "entry"

\* a wrong test of the flag: the scan goes on whatever the flag holds
NeverCancelled(is_running) == FALSE

\* `if not self.running: return`, in _scan_directory and in its loop
Cancelled(is_running) == ~is_running

\* _scan_directory(directory): `if not self.running: return`
ScanEnter(i) ==
    /\ scan_threads[i].pc = "enter"
    /\ scan_threads' = [scan_threads EXCEPT
            ![i].pc = IF Cancelled(scanner.running)
                      THEN ScanReturn(scan_threads[i].stack) ELSE "visit",
            ![i].dir = IF Cancelled(scanner.running) THEN None ELSE @]
    /\ UNCHANGED <<scanner, notified, ret>>

\* _scan_directory(directory): the directory is counted, the progress
\* callback invoked and os.scandir called.  An exception of the callback
\* leaves the call: in a nested call the caller's `except Exception: pass`
\* swallows it, in the first call it reaches _scan_loop
ScanVisit(i) ==
    /\ scan_threads[i].pc = "visit"
    /\ UNCHANGED ret
    /\ LET directory == scan_threads[i].dir
           stack == scan_threads[i].stack
       IN  /\ scanner' = [scanner EXCEPT !.scanned_dirs = @ + 1]
           /\ \E raised \in (IF scanner.total_dirs > 0 THEN BOOLEAN ELSE {FALSE}) :
                /\ notified' =
                        IF scanner.total_dirs > 0
                        THEN Notify(i, "progress",
                                    Progress(scanner.scanned_dirs + 1, scanner.total_dirs),
                                    raised, directory)
                        ELSE notified
                /\ scan_threads' = [scan_threads EXCEPT
                        ![i].dir = None,
                        ![i].pc = IF raised \/ ScandirRaises(directory)
                                  THEN ScanReturn(stack) ELSE "entry",
                        ![i].stack = IF raised \/ ScandirRaises(directory)
                                     THEN @
                                     ELSE Append(@, [dir |-> directory,
                                                     rest |-> DirEntries(directory)])]

\* the head of `for entry in os.scandir(directory)` in the innermost
\* _scan_directory call: the call ends when the entries are used up or
\* running is False, else the next entry is taken
ScanEntry(i) ==
    /\ scan_threads[i].pc = "entry"
    /\ UNCHANGED <<scanner, notified, ret>>
    /\ LET stack == scan_threads[i].stack
           depth == Len(stack)
           outer == SubSeq(stack, 1, depth - 1)
       IN  IF stack[depth].rest = <<>> \/ Cancelled(scanner.running)
           THEN scan_threads' = [scan_threads EXCEPT ![i].stack = outer,
                                                     ![i].pc = ScanReturn(outer)]
           ELSE scan_threads' = [scan_threads EXCEPT
                                    ![i].stack[depth].rest = Tail(@),
                                    ![i].pc = "inspect",
                                    ![i].dir = Head(stack[depth].rest)]

\* the body of the loop for one entry: a directory that is not skipped is
\* scanned, a file that is a log file is counted and reported; what is
\* raised here is swallowed and the loop goes on
ScanInspect(i) ==
    /\ scan_threads[i].pc = "inspect"
    /\ UNCHANGED ret
    /\ LET entry == scan_threads[i].dir
           directory == scan_threads[i].stack[Len(scan_threads[i].stack)].dir
       IN  IF entry \notin Uninspectable /\ EntryIsDir(entry)
              /\ ~SkippedDir(EntryName(entry))
           THEN /\ scan_threads' = [scan_threads EXCEPT ![i].pc = "enter"]
                /\ UNCHANGED <<scanner, notified>>
           ELSE /\ IF entry \notin Uninspectable /\ ~EntryIsDir(entry) /\ IsLogFile(entry)
                   THEN /\ scanner' = [scanner EXCEPT !.found_count = @ + 1]
                        /\ \E raised \in BOOLEAN :
                                notified' = Notify(i, "found", entry, raised, directory)
                   ELSE UNCHANGED <<scanner, notified>>
                /\ scan_threads' = [scan_threads EXCEPT ![i].pc = "entry", ![i].dir = None]

\* _scan_loop, finally: self.running = False
ScanFinally(i) ==
    /\ scan_threads[i].pc = "finally"
    /\ scanner' = [scanner EXCEPT !.running = FALSE]
    /\ scan_threads' = [scan_threads EXCEPT ![i].pc = "done"]
    /\ UNCHANGED <<notified, ret>>

\* _scan_loop, finally: self.callback_done(self.found_count); the thread ends
ScanDone(i) ==
    /\ scan_threads[i].pc = "done"
    /\ notified' = Notify(i, "done", scanner.found_count, FALSE, None)
    /\ scan_threads' = [scan_threads EXCEPT ![i].pc = "end"]
    /\ UNCHANGED <<scanner, ret>>

scan_loop(i) ==
    ScanCount(i) \/ ScanFirstProgress(i) \/ ScanEnter(i) \/ ScanVisit(i) \/ ScanEntry(i)
    \/ ScanInspect(i) \/ ScanFinally(i) \/ ScanDone(i)

\* A caller that starts and stops scans, and the scan threads
InitScan ==
    InitWith([writes |-> 0, configs |-> 0, ops |-> 0, writers |-> {}], {<<>>}, FALSE)

NextScan ==
    /\ \/ \E start_path \in ScanRoots : start_scan(start_path)
       \/ scanner_stop
       \/ \E i \in DOMAIN scan_threads : scan_loop(i)
    /\ UNCHANGED <<fsVars, mapVars, cfgVars, chk, events, track, nconfig, limit, ring_added, sound,
                   lifeVars>>

SpecScan == InitScan /\ [][NextScan]_vars

\* One scan of a tree that holds skipped directories, a directory that may
\* not be read, an entry that cannot be inspected and files told apart by
\* their content; of a chain of directories deeper than the estimate counts;
\* of a skipped directory itself; or of a missing path
WalkRoots == {"/proj", "/deep", "/proj/node_modules", "/proj/.cache", "/nonexistent"}

NextWalk ==
    /\ \/ /\ scan_threads = <<>> \/ scanner.running
          /\ \E start_path \in WalkRoots : start_scan(start_path)
       \/ scanner_stop
       \/ \E i \in DOMAIN scan_threads : scan_loop(i)
    /\ UNCHANGED <<fsVars, mapVars, cfgVars, chk, events, track, nconfig, limit, ring_added, sound,
                   lifeVars>>

SpecWalk == InitScan /\ [][NextWalk]_vars

\* the scan threads are scheduled and every step of theirs returns or raises
ScanThreadStep ==
    /\ \E i \in DOMAIN scan_threads : scan_loop(i)
    /\ UNCHANGED <<fsVars, mapVars, cfgVars, chk, events, track, nconfig, limit, ring_added, sound,
                   lifeVars>>

SpecWalkFair == SpecWalk /\ WF_vars(ScanThreadStep)

\* get_error_count, get_total_error_count, get_matched_lines
get_error_count(filepath) == Get(file_error_counts, filepath, 0)

get_total_error_count == SumOver(file_error_counts, DOMAIN file_error_counts)

\* the files of get_files_for_pattern (which returns them as a sorted list)
get_files_for_pattern(pattern_str) == Get(pattern_to_files, pattern_str, {})

get_matched_lines(filepath) == Get(file_matched_lines, filepath, <<>>)

\* ---------------------------------------------------------------------
\* What the properties below are stated in: the lines of a text, whether a
\* line counts, and the entries a scan of a list of lines is expected to keep
\* ---------------------------------------------------------------------
MatchingPatterns(line) ==
    SelectSeq(pattern_strings, LAMBDA pattern_str : PatternSearch(pattern_str, line))

InConfiguredRange(line) ==
    LET ts == parse_log_timestamp(line)
    IN  \/ ts = None
        \/ /\ (start_datetime = None \/ ~DtLess(ts, start_datetime))
           /\ (end_datetime = None \/ ~DtLess(end_datetime, ts))

LineQualifies(line) == MatchingPatterns(line) # <<>> /\ InConfiguredRange(line)

QualifyingLines(ls) == {i \in 1..Len(ls) : LineQualifies(ls[i])}

\* the number of (line, pattern) pairs among the qualifying lines q of ls
PairCount(ls, q) ==
    Cardinality({pr \in q \X (DOMAIN pattern_strings) :
                    PatternSearch(pattern_strings[pr[2]], ls[pr[1]])})

ExpectedCount(ls) == PairCount(ls, QualifyingLines(ls))

\* one entry per qualifying line (q: their indices), in file order
EntriesOf(ls, q) ==
    [k \in 1..Cardinality(q) |->
        LET i == CHOOSE i \in q : Cardinality({j \in q : j <= i}) = k
        IN  [line_num |-> i,
             text |-> Strip(ls[i]),
             timestamp |-> parse_log_timestamp(ls[i]),
             matched_patterns |-> MatchingPatterns(ls[i])]]

LastEntries(es, n) == IF Len(es) <= n THEN es ELSE SubSeq(es, Len(es) - n + 1, Len(es))

ExpectedBuffer(ls) ==
    LastEntries(EntriesOf(ls, QualifyingLines(ls)), MAX_MATCHED_LINES_PER_FILE)

EventsOf(evs, p) == {k \in DOMAIN evs : evs[k].path = p}

NewEvents == {k \in DOMAIN events' : k > Len(events)}

Content(p) == fs[p].content

Offset(p) == file_positions[p][1]

AtLineStart(content, n) == n = 0 \/ (n <= Len(content) /\ content[n] = "\n")

\* the step in which the check of p that found a changed file reads it
ReadStepOf(p) == chk.active /\ chk.path = p /\ CheckRead

\* ---------------------------------------------------------------------
\* Properties
\* ---------------------------------------------------------------------

\* C1: every line appended to a watched file after its first sighting that
\* matches a pattern and passes the datetime filter is passed to the callback
\* exactly once.  Stated at the moments when no check is under way, the cursor
\* is at the end of the file and the file ends with a line end: every
\* qualifying line that lies after the first-sighting offset has exactly one
\* callback.
C1_ExactlyOnce ==
    \A p \in Paths :
        (/\ ~chk.active
         /\ track[p].seen
         /\ track[p].by = "check"
         /\ ~track[p].rot
         /\ fs[p].exists
         /\ p \in DOMAIN file_positions
         /\ Offset(p) = Len(Content(p))
         /\ track[p].base <= Len(Content(p))
         /\ AtLineStart(Content(p), track[p].base)
         /\ AtLineStart(Content(p), Len(Content(p))))
        => LET ls == Splitlines(Content(p))
               before == Len(Splitlines(SubSeq(Content(p), 1, track[p].base)))
           IN  \A i \in (before + 1)..Len(ls) :
                  LineQualifies(ls[i])
                  => Cardinality({k \in EventsOf(events, p) : events[k].line_num = i}) = 1

\* the state the program keeps for the path p
PathState(p) ==
    <<Get(file_positions, p, None), Get(file_error_counts, p, None),
      Get(file_matched_lines, p, None)>>

\* what the first check of a path without a cursor does
FirstCheckEffects(p) ==
    /\ events' = events
    /\ file_matched_lines' = file_matched_lines
    /\ file_positions'[p] = <<Len(Content(p)), fs[p].mtime>>
    /\ file_error_counts'[p] = Get(file_error_counts, p, 0)
    /\ ~chk'.active

\* C2 (as stated): the first check of a path without a cursor emits nothing,
\* leaves the buffers alone and sets the cursor to (size, mtime), the count to
\* 0 if absent; no later check reports a line that starts in the bytes the
\* file has kept since that moment.
C2_NeverReported ==
    [][\A p \in Paths :
          /\ (CheckStat(p) /\ fs[p].exists /\ p \notin DOMAIN file_positions)
                => FirstCheckEffects(p)
          /\ (track[p].seen /\ ReadStepOf(p))
                => \A k \in NewEvents : events'[k].offset >= track[p].kept]_vars

\* C2 (amended): same first check; afterwards, as long as no check has seen
\* the file smaller than its cursor and the cursor was not replaced by
\* restore_file_state or a reindex, every reported line starts at or after
\* the size observed by the first check.
C2_FirstCheck ==
    [][\A p \in Paths :
          /\ (CheckStat(p) /\ fs[p].exists /\ p \notin DOMAIN file_positions)
                => FirstCheckEffects(p)
          /\ (track[p].seen /\ ~track[p].rot /\ ReadStepOf(p))
                => \A k \in NewEvents : events'[k].offset >= track[p].base]_vars

\* a first check found a non-empty file and a later check has reported a line
C2_Witness ==
    \E p \in Paths :
        /\ track[p].seen /\ ~track[p].rot /\ track[p].base > 0
        /\ p \in DOMAIN file_error_counts
        /\ \E k \in EventsOf(events, p) : events[k].offset >= track[p].base

\* C3: a check of a path that follows a returned check of the same path, with
\* no write to the file in between, emits no match event and leaves the
\* path's cursor, count and buffer unchanged.
C3_Idempotent ==
    [][\A p \in Paths :
          (track[p].quiet /\ (CheckStat(p) \/ ReadStepOf(p)))
          => events' = events /\ PathState(p)' = PathState(p)]_vars

\* C4: when a check has found the file smaller than the stored offset, but
\* not empty, it reads from byte 0, stores the smaller size as the offset and
\* leaves a buffer holding exactly the qualifying lines of the file as read.
C4_RotationRecovery ==
    [][\A p \in Paths :
          (ReadStepOf(p) /\ chk.rotated /\ fs[p].exists)
          => /\ chk.last_position = 0
             /\ chk.current_size > 0
             /\ file_positions'[p][1] = chk.current_size
             /\ file_positions'[p][1] < file_positions[p][1]
             /\ Get(file_matched_lines', p, <<>>) = ExpectedBuffer(Splitlines(Content(p)))]_vars

\* a rotated file has been read again and its buffer holds a line of the new
\* content, numbered from the top of the file
C4_Witness ==
    \E p \in Paths :
        /\ track[p].rot /\ ~chk.active /\ fs[p].exists
        /\ p \in DOMAIN file_positions
        /\ Offset(p) = Len(Content(p))
        /\ Offset(p) < track[p].base
        /\ Get(file_matched_lines, p, <<>>) # <<>>
        /\ Get(file_matched_lines, p, <<>>) = ExpectedBuffer(Splitlines(Content(p)))

\* C5: when a check that observed a size smaller than the stored offset
\* returns, the stored offset is at most the size it observed.
C5_CursorReset ==
    [][\A p \in Paths :
          /\ (CheckStat(p) /\ fs[p].exists /\ p \in DOMAIN file_positions
                /\ Len(Content(p)) < Offset(p) /\ ~chk'.active)
                => file_positions'[p][1] <= Len(Content(p))
          /\ (ReadStepOf(p) /\ chk.rotated)
                => file_positions'[p][1] <= chk.current_size]_vars

\* C6: after a check has handled a file it found smaller than the stored
\* offset, the count of the path is the number of matches of the content it
\* read, the matches counted before the rotation being dropped.
C6_CountReset ==
    [][\A p \in Paths :
          (ReadStepOf(p) /\ chk.rotated /\ fs[p].exists)
          => get_error_count(p)' = ExpectedCount(Splitlines(Content(p)))]_vars

\* C7: a buffer that was handed the lines 0 .. n-1 holds min(n, 50) entries,
\* the most recent ones, in insertion order.
C7_Ring ==
    \A p \in Paths :
        LET buf == get_matched_lines(p)
            n == ring_added[p]
        IN  /\ Len(buf) <= MAX_MATCHED_LINES_PER_FILE
            /\ Len(buf) = Min(n, MAX_MATCHED_LINES_PER_FILE)
            /\ \A k \in 1..Len(buf) : buf[k].line_num = n - Len(buf) + k - 1

\* 60 lines were added: the buffer holds the lines 10 .. 59
C7_Witness ==
    \E p \in Paths :
        /\ ring_added[p] = 60
        /\ Len(get_matched_lines(p)) = 50
        /\ get_matched_lines(p)[1].line_num = 10
        /\ get_matched_lines(p)[50].line_num = 59

\* what a scan of the lines ls of the file of p, with the qualifying lines q,
\* leaves for p
ScanResult(p, ls, q) ==
    /\ file_positions'[p] = <<Len(Content(p)), fs[p].mtime>>
    /\ file_error_counts'[p] = PairCount(ls, q)
    /\ Get(file_matched_lines', p, <<>>) =
            LastEntries(EntriesOf(ls, q), MAX_MATCHED_LINES_PER_FILE)

FullScanResult(p) ==
    ScanResult(p, FileLines(Content(p)), QualifyingLines(FileLines(Content(p))))

\* C8: reindex_all_files leaves, for every existing file of the watch set,
\* the cursor (size, mtime) and the count and buffer of a scan of the whole
\* file under the current patterns and datetime filter, whatever was stored.
C8_ReindexAll ==
    [][reindex_all_files
          => \A p \in FilesToCheck : fs[p].exists => FullScanResult(p)]_vars

\* reindex_all_files has run on a file that had a restored cursor and count
C8_Witness ==
    \E p \in Paths :
        /\ track[p].by = "reindex_all_files"
        /\ track[p].over
        /\ fs[p].exists /\ p \in DOMAIN file_error_counts
        /\ file_error_counts[p] > 0
        /\ get_matched_lines(p) # <<>>

C10_EndToEnd ==
    (/\ Content("/d/app.log") = SampleLog
     /\ pattern_strings = DEFAULT_ERROR_PATTERNS
     /\ start_datetime = None /\ end_datetime = None
     /\ track["/d/app.log"].by = "reindex_all_files")
    => /\ get_total_error_count = 3
       /\ Len(get_matched_lines("/d/app.log")) = 2
       /\ get_matched_lines("/d/app.log")[1].line_num = 3
       /\ get_matched_lines("/d/app.log")[2].line_num = 5

C10_Witness ==
    /\ Content("/d/app.log") = SampleLog
    /\ track["/d/app.log"].by = "reindex_all_files"
    /\ get_total_error_count = 3
    /\ Len(get_matched_lines("/d/app.log")) = 2

\* the positions at which the literal p occurs in line, letters compared
\* without case
Occurrences(p, line) ==
    {k \in 1..(Len(line) - Len(p) + 1) :
        \A j \in 1..Len(p) : Lower(line[k + j - 1]) = Lower(p[j])}

\* the configured pattern p matches line at least once
PatternMatches(p, line) ==
    IF p[1] = "^" THEN RegexMatchHere(p, 2, line, 1) ELSE Occurrences(p, line) # {}

\* C11: _count_matches(line) returns the number of configured patterns that
\* match the line at least once, with the matching pattern strings in their
\* configured order; with no configured pattern it returns 0.
C11_CountMatches ==
    ret.op = "count_matches"
    => /\ ret.value.count =
            Cardinality({i \in DOMAIN pattern_strings : PatternMatches(pattern_strings[i], ret.arg)})
       /\ ret.value.matched_patterns =
            SelectSeq(pattern_strings, LAMBDA p : PatternMatches(p, ret.arg))
       /\ pattern_strings = <<>> => ret.value.count = 0

\* "error" is configured twice and occurs three times in the line: each
\* configured pattern counts once
C11_Witness ==
    /\ ret.op = "count_matches"
    /\ Len(pattern_strings) = 2 /\ pattern_strings[1] = pattern_strings[2]
    /\ Cardinality(Occurrences(pattern_strings[1], ret.arg)) = 3
    /\ ret.value.count = 2

\* re.compile rejects the pattern string p
InvalidRegex(p) == p # <<>> /\ p[1] = "^" /\ RegexError(p)

\* C13: set_error_patterns given a list with a "^" pattern of invalid syntax
\* raises to its caller, and no such pattern is among the configured ones
\* afterwards; a list without one does not raise.
C13_InvalidRegexRaises ==
    /\ ret.op = "set_error_patterns"
        => (ret.raised <=> \E i \in DOMAIN ret.arg : InvalidRegex(ret.arg[i]))
    /\ \A i \in DOMAIN pattern_strings : ~InvalidRegex(pattern_strings[i])

\* a list with a valid pattern followed by an unclosed group was rejected
C13_Witness ==
    /\ ret.op = "set_error_patterns"
    /\ ret.raised
    /\ Len(ret.arg) = 2
    /\ ~InvalidRegex(ret.arg[1]) /\ ret.arg[1] # <<>>
    /\ InvalidRegex(ret.arg[2])

\* the day of a datetime and its second within the day
DayKey(t) == (t[1] * 13 + t[2]) * 32 + t[3]

SecondKey(t) == (t[4] * 60 + t[5]) * 60 + t[6]

\* a is not later than b
NotLater(a, b) ==
    DayKey(a) < DayKey(b) \/ (DayKey(a) = DayKey(b) /\ SecondKey(a) <= SecondKey(b))

\* no timestamp, or start <= timestamp <= end, an absent bound being no bound
WithinBounds(ts, start_dt, end_dt) ==
    \/ ts = None
    \/ /\ (start_dt = None \/ NotLater(start_dt, ts))
       /\ (end_dt = None \/ NotLater(ts, end_dt))

\* the lines of ls that match a pattern and lie within the configured bounds
LinesWithinBounds(ls) ==
    {i \in DOMAIN ls :
        /\ MatchingPatterns(ls[i]) # <<>>
        /\ WithinBounds(parse_log_timestamp(ls[i]), start_datetime, end_datetime)}

\* C12: a matching line qualifies iff its timestamp is None or lies between
\* the configured bounds, both inclusive, an absent bound imposing no limit;
\* check reports exactly the qualifying new lines, and reindex_all_files and
\* reindex_from_positions keep exactly the qualifying lines of the file.
C12_DatetimeFilter ==
    [][\A p \in Paths :
          /\ (ReadStepOf(p) /\ fs[p].exists)
                => {events'[k].line_num : k \in NewEvents} =
                   {StartLineNum(Content(p), chk.last_position) + i - 1 :
                        i \in LinesWithinBounds(
                                Splitlines(NewContent(Content(p), chk.last_position)))}
          /\ (p \in FilesToCheck /\ fs[p].exists
                    /\ (reindex_all_files \/ reindex_from_positions))
                => {e.line_num : e \in {Get(file_matched_lines', p, <<>>)[k] :
                                            k \in DOMAIN Get(file_matched_lines', p, <<>>)}} =
                   LinesWithinBounds(FileLines(Content(p)))]_vars

\* under the range [Jan 10, Jan 20] the lines dated Jan 20 and Jan 21 were
\* appended and checked: only the line on the upper bound was reported
C12_Witness ==
    /\ start_datetime = Jan10 /\ end_datetime = Jan20
    /\ Content("/d/app.log") = ChunkJan20Jan21
    /\ track["/d/app.log"].seen /\ track["/d/app.log"].base = 0
    /\ track["/d/app.log"].by = "check"
    /\ "/d/app.log" \in DOMAIN file_positions
    /\ Offset("/d/app.log") = Len(Content("/d/app.log"))
    /\ Len(events) = 1
    /\ events[1].line_num = 1

\* C14: start() while Running changes nothing; stop() leaves running False,
\* no observer and no registered-path bookkeeping; start() while Stopped sets
\* running and creates the observer or, without watchdog, a polling thread.
C14_Lifecycle ==
    [][/\ (start("main") /\ running)
            => UNCHANGED <<running, observer, watched_paths, poll_threads, calls>>
       /\ stop("main")
            => (~running' /\ observer' = None /\ watched_paths' = {})
       /\ (start("main") /\ ~running)
            => /\ running'
               /\ watchdog => (observer' # None /\ poll_threads' = poll_threads)
               /\ ~watchdog => (observer' = None /\ poll_threads' = poll_threads + 1)]_vars

\* start() was called on a Running watcher whose observer is started and has
\* its directories registered, and returned without touching them
C14_Witness ==
    /\ ret.op = "start" /\ ret.value = "running"
    /\ running
    /\ observer # None /\ observer.started
    /\ watched_paths = {"/d", "/e"}
    /\ \A d \in DirPool : observer.watches[d] = IF d \in {"/d", "/e"} THEN 1 ELSE 0

\* C15: between a start() and the next stop(), whatever add_indexed_file
\* calls were made from whatever thread, every existing watched directory and
\* every existing parent directory of an indexed file is registered with the
\* observer (stated when no call is under way), and no directory is registered
\* more than once.
C15_Registered ==
    (running /\ observer # None)
    => /\ (observer.started /\ AllIdle) => \A d \in PathsToWatch : observer.watches[d] >= 1
       /\ \A d \in DirPool : observer.watches[d] <= 1

\* C16: for any configuration of watched directories and indexed files, also
\* one changed while Running, the existing files whose change events lead to
\* a check are the existing files the polling loop checks.
C16_SamePaths ==
    (running /\ observer # None /\ observer.started /\ AllIdle)
    => {f \in FilePool : FileExists(f) /\ EventAccepted(f)} =
       {f \in PollFiles : FileExists(f)}

\* C17: get_file_state, restore_file_state, reset_counts, reset_file_count
\* and the other accessors exclude one another: what a get_file_state call
\* returns is the content of the maps at a moment of the call at which no
\* mutator had made only a part of its writes.
C17_AccessorsAtomic ==
    (ret.op = "get_file_state" /\ calls["worker"] = Idle) => ret.value \in views

\* C18: restoring get_file_state() into a fresh watcher gives every path the
\* offset, mtime and count it has in the original, and get_file_state() of
\* the restored watcher returns the restored state.
C18_RoundTrip ==
    ret.op = "restore_into_fresh"
    => LET original == ret.arg
           fresh == ret.value
           keys == (DOMAIN original.file_positions) \cup (DOMAIN original.file_error_counts)
       IN  /\ \A p \in keys :
                /\ Get(fresh.file_positions, p, <<0, 0>>) =
                        Get(original.file_positions, p, <<0, 0>>)
                /\ Get(fresh.file_error_counts, p, 0) = Get(original.file_error_counts, p, 0)
           /\ GetFileState(fresh.file_positions, fresh.file_error_counts) =
                GetFileState(original.file_positions, original.file_error_counts)

\* the state of a watcher with cursors for two paths, mtimes other than 0
\* and a count for only one of them was saved and restored
C18_Witness ==
    /\ ret.op = "restore_into_fresh"
    /\ DOMAIN ret.arg.file_positions = Paths
    /\ DOMAIN ret.arg.file_error_counts = {"/d/app.log"}
    /\ \A p \in Paths : ret.arg.file_positions[p][2] > 0
    /\ ret.arg.file_error_counts["/d/app.log"] > 0

\* the scan threads that have not ended
ActiveScans == {i \in DOMAIN scan_threads : scan_threads[i].pc # "end"}

\* C19: at most one scan thread is active at any time, whatever start_scan
\* and stop calls are made.
C19_OneScanThread == Cardinality(ActiveScans) <= 1

\* the callbacks of kind `kind` that scan i has invoked before its k-th
\* callback
Before(i, kind, k) == {j \in 1..(k - 1) : notified[i][j].kind = kind}

\* C20 (safety part): the done callback of a scan is invoked at most once,
\* after every found and progress callback of that scan, with the number of
\* found callbacks of that scan as its argument.
C20_DoneReportsFound ==
    \A i \in DOMAIN notified : \A k \in DOMAIN notified[i] :
        notified[i][k].kind = "done"
        => /\ notified[i][k].arg = Cardinality(Before(i, "found", k))
           /\ k = Len(notified[i])

\* the callbacks of kind `kind` in the history of scan i, as positions
Callbacks(i, kind) == {k \in DOMAIN notified[i] : notified[i][k].kind = kind}

\* C21: every value passed to the progress callback lies between 0.0 and
\* 0.99, also when more directories were scanned than the estimate counted.
C21_ProgressCapped ==
    \A i \in DOMAIN notified : \A k \in Callbacks(i, "progress") :
        LET value == notified[i][k].arg
        IN  value[2] > 0 /\ 0 <= value[1] /\ 100 * value[1] <= 99 * value[2]

\* a scan has counted more directories than its estimate and reported 0.99
C21_Witness ==
    /\ scanner.total_dirs > 0
    /\ scanner.scanned_dirs > scanner.total_dirs
    /\ \E i \in DOMAIN notified : \E k \in Callbacks(i, "progress") :
            notified[i][k].arg = <<99, 100>> /\ notified[i][k].at = "/deep/d1/d2/d3/d4"

\* the directory names the scanner is said to leave out
ExcludedName(name) ==
    \/ name # <<>> /\ name[1] = "."
    \/ name \in {<<"n", "o", "d", "e", "_", "m", "o", "d", "u", "l", "e", "s">>,
                 <<".", "g", "i", "t">>,
                 <<"_", "_", "p", "y", "c", "a", "c", "h", "e", "_", "_">>,
                 <<"v", "e", "n", "v">>}

\* the directories a path lies under
RECURSIVE AncestorsOf(_)
AncestorsOf(path) ==
    IF ~HasParent(path) THEN {}
    ELSE {EntryParent(path)} \cup AncestorsOf(EntryParent(path))

\* C22 as stated: whatever the scan root, no file under a directory with an
\* excluded name is passed to the found callback.
C22_NeverUnderExcluded ==
    \A i \in DOMAIN notified : \A k \in Callbacks(i, "found") :
        \A d \in AncestorsOf(notified[i][k].arg) : ~ExcludedName(EntryName(d))

\* C22 amended: no file that lies, below the scan root, under a directory
\* with an excluded name is passed to the found callback.
C22_NeverUnderExcludedBelowRoot ==
    \A i \in DOMAIN notified : \A k \in Callbacks(i, "found") :
        \A d \in AncestorsOf(notified[i][k].arg)
                    \ ({scanner.scan_path} \cup AncestorsOf(scanner.scan_path)) :
            ~ExcludedName(EntryName(d))

\* a scan of /proj has passed node_modules, .cache, venv, .git and
\* __pycache__ and reported the file that follows them
C22_Witness ==
    /\ scan_threads # <<>>
    /\ scanner.scan_path = "/proj"
    /\ \E i \in DOMAIN notified : \E k \in Callbacks(i, "found") :
            notified[i][k].arg = "/proj/srv/srv.logs"

\* stop() cleared the flag of scan i; a progress callback of scan i raised
Stopped(i) == Callbacks(i, "stop") # {}

ProgressRaised(i) == \E k \in Callbacks(i, "progress") : notified[i][k].raised

\* the files the found callback of scan i was given
FoundBy(i) == {notified[i][k].arg : k \in Callbacks(i, "found")}

\* a path that a scan of `root` comes to: the root, or an entry that can be
\* inspected of a directory the scan comes to and can enumerate, a directory
\* only if its name is not excluded
RECURSIVE Reached(_, _)
Reached(path, root) ==
    \/ path = root
    \/ /\ HasParent(path)
       /\ path \notin Uninspectable
       /\ EntryIsDir(path) => ~ExcludedName(EntryName(path))
       /\ EntryParent(path) \notin Unreadable
       /\ Reached(EntryParent(path), root)

\* the log files a scan of `root` comes to
ExpectedFound(root) ==
    {path \in ScanPaths : ~EntryIsDir(path) /\ Reached(path, root) /\ IsLogFile(path)}

\* a scan was started; every scan that was started has ended
ScanStarted == scan_threads # <<>>

ScansEnded == \A i \in DOMAIN scan_threads : scan_threads[i].pc = "end"

\* a scan that has ended has called done last, and has reported the log
\* files it comes to unless it was stopped or its progress callback raised
EndedComplete ==
    \A i \in DOMAIN scan_threads :
        scan_threads[i].pc = "end"
        => /\ notified[i][Len(notified[i])].kind = "done"
           /\ (~Stopped(i) /\ ~ProgressRaised(i))
                => FoundBy(i) = ExpectedFound(scanner.scan_path)

\* C23: errors of os.scandir and of the inspection of an entry never abort a
\* scan: a scan that is not stopped and whose progress callback does not raise
\* reports exactly the log files of the directories it can enumerate, its
\* last callback is done, and every scan that was started comes to its end.
C23_ErrorsSkipped ==
    /\ []EndedComplete
    /\ ScanStarted ~> ScansEnded

\* a scan of /proj has ended after it met the directory that may not be read
\* and the entry that cannot be inspected, and has reported the files that
\* follow them
C23_Witness ==
    /\ scan_threads # <<>>
    /\ scan_threads[1].pc = "end"
    /\ scanner.scan_path = "/proj"
    /\ ~Stopped(1) /\ ~ProgressRaised(1)
    /\ \E k \in Callbacks(1, "progress") : notified[1][k].at = "/proj/locked"
    /\ FoundBy(1) = {"/proj/app.log", "/proj/mylog.txt", "/proj/srv/srv.logs"}

\* C26: after stop() has cleared the flag of a scan, the scan thread delivers
\* at most one more found or progress notification, that of the file or
\* directory in flight.
C26_StopsAtBoundary ==
    \A i \in DOMAIN notified : \A s \in Callbacks(i, "stop") :
        Cardinality({k \in Callbacks(i, "found") \cup Callbacks(i, "progress") : k > s}) <= 1

\* a found notification was delivered after the flag was cleared
C26_Witness ==
    \E i \in DOMAIN notified : \E s \in Callbacks(i, "stop") :
        /\ \E k \in Callbacks(i, "found") : k > s
        /\ scan_threads[i].pc = "end"

NonBlank(lines) == {i \in DOMAIN lines : Strip(lines[i]) # <<>>}

FirstFive(lines) ==
    {i \in NonBlank(lines) : Cardinality({j \in NonBlank(lines) : j < i}) < 5}

TimedOf(lines, among) == {i \in among : LogLineMatch(Strip(lines[i]))}

\* a name without the suffix .log or .logs that contains `log`
NamedLikeLog(name) ==
    /\ Suffix(LowerStr(name)) \notin {<<".", "l", "o", "g">>, <<".", "l", "o", "g", "s">>}
    /\ \E i \in 1..(Len(name) - 2) : SubSeq(LowerStr(name), i, i + 2) = <<"l", "o", "g">>

\* C24: a file without the suffix .log/.logs whose name contains `log` is a
\* log file iff it can be read and at least 2 of its first 5 lines that are
\* not blank start with a timestamp.
C24_Classifier ==
    (ret.op = "is_log_file" /\ NamedLikeLog(ret.arg.name))
    => LET lines == FileLines(ret.arg.content)
       IN  ret.value = (/\ ret.arg.readable
                        /\ Cardinality(TimedOf(lines, FirstFive(lines))) >= 2)

\* a readable file with two timed lines, of which one comes after the fifth
\* line that is not blank, is not a log file
C24_Witness ==
    /\ ret.op = "is_log_file"
    /\ NamedLikeLog(ret.arg.name)
    /\ ret.arg.readable
    /\ LET lines == FileLines(ret.arg.content)
       IN  /\ Cardinality(TimedOf(lines, DOMAIN lines)) >= 2
           /\ ret.value = FALSE

\* pattern k of TIMESTAMP_PATTERNS matches somewhere in the line and its
\* leftmost match converts to a date and time
Converts(k, line) ==
    /\ \E i \in 1..Len(line) : PatternAt(k, line, i)
    /\ ValidDatetime(ConverterArgs(k, line, SearchPattern(k, line)))

\* C25: parse_log_timestamp returns the conversion of the first of the four
\* patterns, in their order, whose leftmost match in the line converts to a
\* valid date and time, None when there is none, and never raises.
C25_FirstConverting ==
    ret.op = "parse_log_timestamp"
    => /\ ~ret.raised
       /\ IF \E k \in 1..4 : Converts(k, ret.arg)
          THEN \E k \in 1..4 :
                /\ Converts(k, ret.arg)
                /\ \A j \in 1..(k - 1) : ~Converts(j, ret.arg)
                /\ ret.value = ConverterArgs(k, ret.arg, SearchPattern(k, ret.arg))
          ELSE ret.value = None

\* the first pattern matched a text that is out of range and the second
\* pattern gave the result
C25_Witness ==
    /\ ret.op = "parse_log_timestamp"
    /\ \E i \in 1..Len(ret.arg) : PatternAt(1, ret.arg, i)
    /\ ~Converts(1, ret.arg)
    /\ Converts(2, ret.arg)
    /\ ret.value = <<2024, 1, 15, 0, 0, 0>>


\* the check of p has just found the file of p smaller than its cursor
RotationSeen(p) ==
    /\ CheckStat(p)
    /\ fs[p].exists
    /\ p \in DOMAIN file_positions
    /\ Len(Content(p)) < Offset(p)

\* C28: while only writers and checks act, the count of a path never
\* decreases; the check that finds the file smaller than its cursor empties
\* the buffer of the path and keeps its count, and the read that follows adds
\* the matches of the content it reads to that count.
C28_CountSurvivesRotation ==
    [][\A p \in Paths :
          /\ get_error_count(p)' >= get_error_count(p)
          /\ RotationSeen(p)
                => /\ get_matched_lines(p)' = <<>>
                   /\ get_error_count(p)' = get_error_count(p)
          /\ (ReadStepOf(p) /\ chk.rotated /\ fs[p].exists)
                => get_error_count(p)' =
                      get_error_count(p) + ExpectedCount(Splitlines(Content(p)))]_vars

\* a truncated file was read again: the buffer holds the matches of the new
\* content only, the count those and the ones counted before the truncation
C28_Witness ==
    \E p \in Paths :
        /\ track[p].rot /\ ~chk.active /\ fs[p].exists
        /\ p \in DOMAIN file_positions
        /\ Offset(p) = Len(Content(p))
        /\ ExpectedCount(Splitlines(Content(p))) > 0
        /\ get_matched_lines(p) = ExpectedBuffer(Splitlines(Content(p)))
        /\ get_error_count(p) > ExpectedCount(Splitlines(Content(p)))


\* the state of the path p when the check now reading it was called: the
\* cursor and the count are written only after the read
StateAtCall(p) ==
    <<Get(file_positions, p, None), Get(file_error_counts, p, None), chk.held>>

\* C30: a check that finds no file at the path, or that cannot read the file
\* it found changed (also after it saw the file smaller than the cursor),
\* returns without a match event and with the cursor, the count and the buffer
\* the path had when it was called; the polling round goes on with its other
\* files.
C30_FailedCheckChangesNothing ==
    [][\A p \in Paths :
          /\ (CheckStat(p) /\ ~fs[p].exists)
                => /\ events' = events
                   /\ PathState(p)' = PathState(p)
                   /\ ~chk'.active
          /\ (ReadStepOf(p) /\ ~fs[p].exists)
                => /\ events' = events
                   /\ PathState(p)' = StateAtCall(p)
                   /\ ~chk'.active]_vars


\* the step takes away the cursor of the path p
CursorDeleted(p) == p \in DOMAIN file_positions /\ p \notin DOMAIN file_positions'

\* the step is a set_indexed_files call that takes p out of the indexed set
RemovedFromIndexed(p) ==
    /\ p \in watch_files
    /\ p \notin watch_files'
    /\ set_indexed_files(watch_files')

ResetBefore(p) ==
    \/ ret.op = "reset_counts"
    \/ ret.op = "reset_file_count" /\ ret.arg = p

LineIndexAt(content, offset) == CountNewlines(SubSeq(content, 1, offset)) + 1

\* C32: every match event of a check, and the buffer entry made with it,
\* carries the 1-based index that the reported line has in the whole file,
\* which is the number a full rescan gives to that line.
C32_LineNumbers ==
    [][\A p \in Paths :
          (ReadStepOf(p) /\ fs[p].exists)
          => \A k \in NewEvents :
                /\ events'[k].line_num = LineIndexAt(Content(p), events'[k].offset)
                /\ \E j \in DOMAIN get_matched_lines(p)' :
                      /\ get_matched_lines(p)'[j].line_num = events'[k].line_num
                      /\ get_matched_lines(p)'[j].text = events'[k].text]_vars


\* a reindex is between its first statement and its return
ReindexUnderWay ==
    \E t \in Callers : calls[t].op \in {"reindex_from_positions", "reindex_all_files"}

\* C33: no check of the watcher is under way while a reindex of the same
\* watcher is: the application never lets the two overlap.
C33_SingleWriter == ~(chk.active /\ ReindexUnderWay)


\* the sounds played in the BurstSeconds seconds that begin at time t
PlayedFrom(t) == {k \in DOMAIN sound.played : t <= sound.played[k] /\ sound.played[k] < t + BurstSeconds}

\* C34: whatever the times of the match events, no interval of 2 seconds
\* holds more than max_sounds_per_burst alert sounds.
C34_BurstLimit ==
    \A t \in 0..MaxSoundTime : Cardinality(PlayedFrom(t)) <= max_sounds_per_burst


\* C35: a set_error_patterns call that fails on an invalid regular expression
\* leaves the patterns that were configured before the call in effect,
\* unchanged.
C35_AllOrNothing ==
    [][(nconfig' # nconfig /\ ret'.op = "set_error_patterns" /\ ret'.raised)
          => pattern_strings' = pattern_strings]_vars


\* C36 (as stated): a reindex invokes the match callback for no line, and no
\* later check invokes it for a line that starts in the bytes a reindex has
\* scanned.
C36_ReindexSilent ==
    [][/\ Reindex => events' = events
       /\ \A p \in Paths :
            ReadStepOf(p) => \A k \in NewEvents : events'[k].offset >= track[p].scan]_vars

\* C36 (amended): a reindex invokes the match callback for no line; as long as
\* no check has seen the file smaller than its cursor and restore_file_state
\* has not replaced the cursor since the reindex, no later check invokes it
\* for a line that starts before the offset the reindex stored as the cursor
\* of the file (the size of the file it scanned).
C36_ReindexSilentUntilRotation ==
    [][/\ Reindex => events' = events
       /\ \A p \in Paths :
            (track[p].fresh /\ ReadStepOf(p))
            => \A k \in NewEvents : events'[k].offset >= track[p].scan]_vars

\* a reindex found a qualifying line, which is in the buffer and was never
\* reported, and a later check has reported a line appended after the scan
C36_Witness ==
    \E p \in Paths :
        /\ track[p].fresh /\ track[p].scan > 0
        /\ \E k \in EventsOf(events, p) : events[k].offset >= track[p].scan
        /\ \E j \in DOMAIN get_matched_lines(p) :
                \A k \in EventsOf(events, p) :
                    events[k].line_num # get_matched_lines(p)[j].line_num


\* C37: when reindex_all_files returns, every path with a non-empty buffer
\* is a file that this pass scanned and has a count and a cursor; a path that
\* the pass did not scan (file deleted, or no longer watched) has an empty
\* buffer and the count 0.
C37_NoStaleMatches ==
    [][reindex_all_files
          => \A p \in Paths :
                /\ get_matched_lines(p)' # <<>>
                      => /\ p \in FilesToCheck /\ fs[p].exists
                         /\ p \in DOMAIN file_error_counts'
                         /\ p \in DOMAIN file_positions'
                /\ ~(p \in FilesToCheck /\ fs[p].exists)
                      => get_matched_lines(p)' = <<>> /\ get_error_count(p)' = 0]_vars


\* C38: every file listed for a pattern by get_files_for_pattern has a
\* non-empty matched-line buffer, so a file whose buffer was emptied is listed
\* for no pattern.
C38_IndexConsistent ==
    \A pattern_str \in DOMAIN pattern_to_files :
        \A filepath \in get_files_for_pattern(pattern_str) :
            get_matched_lines(filepath) # <<>>


\* C39: a callback that raises loses no line.  Stated at the moments when no
\* check is under way and the cursor is at the end of the file, where no later
\* check reads anything more: every qualifying line appended since the first
\* sighting has been passed to the callback and is in the buffer, and the
\* count holds the matches of all of them.
C39_NoLineLost ==
    \A p \in Paths :
        (/\ ~chk.active
         /\ track[p].seen
         /\ fs[p].exists
         /\ p \in DOMAIN file_positions
         /\ Offset(p) = Len(Content(p)))
        => LET ls == Splitlines(Content(p))
               before == Len(Splitlines(SubSeq(Content(p), 1, track[p].base)))
               q == {i \in (before + 1)..Len(ls) : LineQualifies(ls[i])}
           IN  /\ \A i \in q :
                    /\ \E k \in EventsOf(events, p) : events[k].line_num = i
                    /\ \E j \in DOMAIN get_matched_lines(p) :
                            get_matched_lines(p)[j].line_num = i
               /\ get_error_count(p) >= PairCount(ls, q)


\* C40: in polling mode, whatever the sequence of start() and stop() calls, at
\* most one polling loop of the watcher is alive and running checks.
C40_OnePollLoop == running => poll_threads <= 1

====
